---- MODULE Spec2Model ----
(***************************************************************************)
(* A model of node-conf (src/conf.js): the schema compiler                 *)
(* (getPropertyField, updateSection), the runtime scope engine (Runtime    *)
(* push/pop, createProp, applyResult, endScope, the end getter and the     *)
(* forced close of runInContext) and value coercion (validateValue).       *)
(*                                                                         *)
(* JavaScript values are tagged records: [k |-> "number", n |-> 3],        *)
(* [k |-> "string", s |-> <<"4","2">>] (a string is its sequence of        *)
(* characters), [k |-> "object", m |-> f] (f a function from keys to       *)
(* values), [k |-> "array", l |-> <<...>>], [k |-> "null"], ...            *)
(***************************************************************************)
EXTENDS Integers, Sequences, FiniteSets, TLC

VARIABLES context, runtime, frames, phase, error, returned, hooks,
          lastOp, closedLog, assigned, nops, nincludes

vars == <<context, runtime, frames, phase, error, returned, hooks,
          lastOp, closedLog, assigned, nops, nincludes>>

(***************************************************************************)
(* Bounds of the model.                                                    *)
(***************************************************************************)
\* number of script-level operations (dispatches and ends) of one run
MaxOps == 5

(***************************************************************************)
(* Values.                                                                 *)
(***************************************************************************)
Null == [k |-> "null"]
Undefined == [k |-> "undefined"]
NaN == [k |-> "nan"]
Bool(b) == [k |-> "boolean", b |-> b]
Num(n) == [k |-> "number", n |-> n]
Str(s) == [k |-> "string", s |-> s]
Arr(l) == [k |-> "array", l |-> l]
Obj(m) == [k |-> "object", m |-> m]
\* a RegExp object made from the pattern src
RegExp(src) == [k |-> "regexp", src |-> src]
\* a number that is not an integer: num / den
Float(num, den) == [k |-> "float", num |-> num, den |-> den]
EmptyMap == [x \in {} |-> Null]

\* the sentinel of "no default value"
NIL == [k |-> "NIL"]

\* JavaScript's typeof (NaN is a number; null and arrays are objects)
typeof(v) ==
  CASE v.k \in {"nan", "float"} -> "number"
    [] v.k \in {"null", "array", "object", "regexp", "NIL"} -> "object"
    [] OTHER -> v.k

\* "key in target" and target[key] = value on a mapping
Has(m, key) == key \in DOMAIN m
Put(m, key, v) == [x \in (DOMAIN m) \cup {key} |-> IF x = key THEN v ELSE m[x]]

Digits == <<"0", "1", "2", "3", "4", "5", "6", "7", "8", "9">>
IsDigit(c) == \E i \in 1..10 : Digits[i] = c
DigitVal(c) == (CHOOSE i \in 1..10 : Digits[i] = c) - 1

\* the longest prefix of s made of digits
RECURSIVE DigitPrefix(_)
DigitPrefix(s) ==
  IF s = <<>> \/ ~IsDigit(Head(s)) THEN <<>>
  ELSE <<Head(s)>> \o DigitPrefix(Tail(s))

RECURSIVE DigitsToInt(_)
DigitsToInt(s) ==
  IF s = <<>> THEN 0
  ELSE 10 * DigitsToInt(SubSeq(s, 1, Len(s) - 1)) + DigitVal(s[Len(s)])

\* mutant: a string without leading digits parses as 0
parseInt_Zero(s) ==
  IF DigitPrefix(s) = <<>> THEN Num(0) ELSE Num(DigitsToInt(DigitPrefix(s)))

\* parseInt of a string: the integer its leading digits spell, else NaN
parseInt(s) ==
  IF DigitPrefix(s) = <<>> THEN NaN ELSE Num(DigitsToInt(DigitPrefix(s)))

\* Number.prototype.toString for a natural number
RECURSIVE NatToString(_)
NatToString(n) ==
  IF n < 10 THEN <<Digits[n + 1]>>
  ELSE NatToString(n \div 10) \o <<Digits[(n % 10) + 1]>>

(***************************************************************************)
(* Errors.  A message is the sequence of the parts the code concatenates.  *)
(***************************************************************************)
NoError == [cls |-> "none", msg |-> <<>>]
RuntimeError(msg) == [cls |-> "RuntimeError", msg |-> msg]
NativeError(msg) == [cls |-> "Error", msg |-> msg]
TypeError(msg) == [cls |-> "TypeError", msg |-> msg]

\* stands for the grave accent character (U+0060) of a message
BackTick == "[grave]"

\* what runScript's catch rethrows: a RuntimeError is rethrown as it is,
\* any other error becomes a RuntimeError with the same message
runScriptCatch(e) ==
  IF e.cls \in {"none", "RuntimeError"} THEN e ELSE RuntimeError(e.msg)

(***************************************************************************)
(* Value coercion.                                                         *)
(***************************************************************************)
Valid(v) == [err |-> NoError, v |-> v]
Invalid(e) == [err |-> e, v |-> Undefined]

\* mutant: undefined and null have a string form
toString_Lenient(v) == Valid(Str(<<v.k>>))

\* value.toString() of the non-strict string coercion
toString(v) ==
  CASE v.k = "number" -> Valid(Str(NatToString(v.n)))
    [] v.k = "nan" -> Valid(Str(<<"N", "a", "N">>))
    [] v.k = "boolean" ->
         Valid(Str(IF v.b THEN <<"t", "r", "u", "e">>
                   ELSE <<"f", "a", "l", "s", "e">>))
    [] v.k = "string" -> Valid(v)
    [] v.k \in {"undefined", "null"} ->
         Invalid(TypeError(<<"Cannot call method 'toString' of ", v.k>>))
    [] OTHER -> Valid(Str(<<"[", "o", "b", "j", "e", "c", "t", "]">>))

\* parseInt(value) of the non-strict number coercion
parseIntValue(v) ==
  CASE v.k = "string" -> parseInt(v.s)
    [] v.k = "number" -> v
    [] v.k = "float" -> Num(v.num \div v.den)
    [] OTHER -> NaN

\* the longest prefix of s that [\d\.]+ can match
RECURSIVE NumPrefix(_)
NumPrefix(s) ==
  IF s = <<>> \/ ~(IsDigit(Head(s)) \/ Head(s) = ".") THEN <<>>
  ELSE <<Head(s)>> \o NumPrefix(Tail(s))

Drop(s, n) == SubSeq(s, n + 1, Len(s))

RECURSIVE Pow10(_)
Pow10(k) == IF k = 0 THEN 1 ELSE 10 * Pow10(k - 1)

\* parseFloat(s) * factor for a string s of digits and dots: parseFloat
\* reads the digits, one dot and the digits after it, and stops there
parseFloatTimes(s, factor) ==
  LET int == DigitPrefix(s)
      frac == IF Len(s) > Len(int) /\ s[Len(int) + 1] = "."
              THEN DigitPrefix(Drop(s, Len(int) + 1)) ELSE <<>>
      num == DigitsToInt(int \o frac) * factor
      den == Pow10(Len(frac))
  IN IF int \o frac = <<>> THEN NaN
     ELSE IF num % den = 0 THEN Num(num \div den)
     ELSE Float(num, den)

\* the units of BYTESIZE_RE and TIMEUNIT_RE, with the factor of the switch
\* of getBytes and getMilliseconds
BYTESIZE_UNITS ==
  [s \in {<<"b">>, <<"k", "b">>, <<"m", "b">>, <<"g", "b">>} |->
     CASE s = <<"b">> -> 1
       [] s = <<"k", "b">> -> 1024
       [] s = <<"m", "b">> -> 1024 * 1024
       [] s = <<"g", "b">> -> 1024 * 1024 * 1024]

TIMEUNIT_UNITS ==
  [s \in {<<"m", "s">>, <<"s">>, <<"m">>, <<"h">>, <<"d">>} |->
     CASE s = <<"m", "s">> -> 1
       [] s = <<"s">> -> 1000
       [] s = <<"m">> -> 1000 * 60
       [] s = <<"h">> -> 1000 * 60 * 60
       [] s = <<"d">> -> 1000 * 60 * 60 * 24]

\* getBytes and getMilliseconds: units is the table of the units, first
\* the unit whose case returns parseInt(m[1]), what the message names.
\* The expression matches when it is digits and dots followed by a unit
\* or by nothing
getUnits(units, first, what, expr) ==
  LET m1 == NumPrefix(expr)
      m2 == Drop(expr, Len(m1))
  IN IF m1 = <<>> \/ (m2 # <<>> /\ m2 \notin DOMAIN units)
     THEN Invalid(RuntimeError(<<"Invalid ", what, " expression">>))
     ELSE IF m2 = <<>> \/ m2 = first THEN Valid(parseInt(m1))
     ELSE Valid(parseFloatTimes(m1, units[m2]))

\* mutant: the case of kb returns the number without the factor
getBytes_Bare(expr) == getUnits(BYTESIZE_UNITS, <<"k", "b">>, "bytesize", expr)

getBytes(expr) == getUnits(BYTESIZE_UNITS, <<"b">>, "bytesize", expr)
getMilliseconds(expr) ==
  getUnits(TIMEUNIT_UNITS, <<"m", "s">>, "timeunit", expr)

\* new RegExp(value): throws for a pattern that does not compile (here one
\* with a group that is opened and not closed)
newRegExp(s) ==
  IF (\E i \in 1..Len(s) : s[i] = "(") /\ ~(\E i \in 1..Len(s) : s[i] = ")")
  THEN Invalid(RuntimeError(<<"Expected a RegExp">>))
  ELSE Valid(RegExp(s))

\* the two coercions that go through value.toString() when the value is
\* neither a number nor a string
viaToString(strict, value, parse(_)) ==
  IF strict THEN Invalid(RuntimeError(<<"Expected String or Number">>))
  ELSE IF toString(value).err # NoError THEN toString(value)
  ELSE parse(toString(value).v.s)

\* mutant: the strict flag of the field is ignored
isStrict_Runtime(strictRuntime, field) == strictRuntime

\* var strict = this.strict || field.strict
isStrict(strictRuntime, field) == strictRuntime \/ field.strict

validateValue(strictRuntime, field, value) ==
  LET strict == isStrict(strictRuntime, field) IN
  CASE field.type = "wildcard" -> Valid(value)
    [] field.type = "boolean" ->
         IF typeof(value) = "boolean" THEN Valid(value)
         ELSE IF strict THEN Invalid(RuntimeError(<<"Expected a Boolean">>))
         ELSE Valid(Bool(TRUE))
    [] field.type = "string" ->
         IF typeof(value) = "string" THEN Valid(value)
         ELSE IF strict THEN Invalid(RuntimeError(<<"Expected a String">>))
         ELSE toString(value)
    [] field.type = "number" ->
         IF typeof(value) = "number" THEN Valid(value)
         ELSE IF strict THEN Invalid(RuntimeError(<<"Expected a Number">>))
         ELSE IF parseIntValue(value) = NaN
              THEN Invalid(RuntimeError(<<"Expected a Number">>))
              ELSE Valid(parseIntValue(value))
    [] field.type = "array" ->
         IF value.k = "array" THEN Valid(value)
         ELSE IF strict THEN Invalid(RuntimeError(<<"Expected an Array">>))
         ELSE Valid(Arr(<<value>>))
    [] field.type = "object" ->
         IF typeof(value) = "object" THEN Valid(value)
         ELSE IF strict THEN Invalid(RuntimeError(<<"Expected an Object">>))
         ELSE Valid(value)
    [] field.type = "regexp" ->
         IF value.k = "regexp" THEN Valid(value)
         ELSE IF strict THEN Invalid(RuntimeError(<<"Expected a RegExp">>))
         ELSE IF typeof(value) = "string" THEN newRegExp(value.s)
         ELSE Invalid(RuntimeError(<<"Expected a RegExp">>))
    [] field.type = "bytesize" ->
         IF typeof(value) = "number" THEN Valid(parseIntValue(value))
         ELSE IF typeof(value) = "string" THEN getBytes(value.s)
         ELSE viaToString(strict, value, getBytes)
    [] field.type = "timeunit" ->
         IF typeof(value) = "number" THEN Valid(parseIntValue(value))
         ELSE IF typeof(value) = "string" THEN getMilliseconds(value.s)
         ELSE viaToString(strict, value, getMilliseconds)
    \* expression, path and custom fields are not part of the schemas of
    \* the model
    [] OTHER -> Valid(value)

(***************************************************************************)
(* Markup.  A markup object is the sequence of its entries in key order;   *)
(* an entry's expression is a type token given as a string, a native       *)
(* constructor, an array (a string or a constructor, then the default), or *)
(* a descriptor object (a record holding only the keys the descriptor      *)
(* spells out).                                                            *)
(***************************************************************************)
MString(tok) == [form |-> "string", tok |-> tok]
MNative(ctor) == [form |-> "native", ctor |-> ctor]
MArray(l) == [form |-> "array", l |-> l]
MObject(o) == [form |-> "object", o |-> o]
Entry(name, expr) == [name |-> name, expr |-> expr]
MarkupParam(m) == [k |-> "markup", m |-> m]

RESERVED_NAMES == {"end", "include", "define"}
PARAM_REQUIRED == {"struct", "section", "expression", "custom"}

NATIVE_TYPE_MAPPING ==
  <<"Boolean", "boolean", "String", "string", "Number", "number",
    "Array", "array", "Object", "object", "RegExp", "regexp">>

PROPERTY_TYPES ==
  <<"boolean", "string", "number", "array", "object", "regexp", "section",
    "expression", "path", "static", "struct", "wildcard", "custom",
    "bytesize", "timeunit">>

\* the all-uppercase spelling of every type name
UPPER_CASE ==
  <<"BOOLEAN", "STRING", "NUMBER", "ARRAY", "OBJECT", "REGEXP", "SECTION",
    "EXPRESSION", "PATH", "STATIC", "STRUCT", "WILDCARD", "CUSTOM",
    "BYTESIZE", "TIMEUNIT">>

\* a mixed-case spelling of every type name
MIXED_CASE ==
  <<"Boolean", "String", "Number", "Array", "Object", "RegExp", "Section",
    "Expression", "Path", "Static", "Struct", "Wildcard", "Custom",
    "ByteSize", "TimeUnit">>

indexOf(list, x) ==
  IF \E i \in 1..Len(list) : list[i] = x
  THEN (CHOOSE i \in 1..Len(list) : list[i] = x) - 1
  ELSE -1

\* String.prototype.toLowerCase on a type token
toLowerCase(tok) ==
  IF indexOf(UPPER_CASE, tok) # -1
  THEN PROPERTY_TYPES[indexOf(UPPER_CASE, tok) + 1]
  ELSE IF indexOf(MIXED_CASE, tok) # -1
  THEN PROPERTY_TYPES[indexOf(MIXED_CASE, tok) + 1]
  ELSE tok

\* REQUIRED_RE = /^[A-Z]*$/ tested on a type token
REQUIRED_RE(tok) == tok = "" \/ indexOf(UPPER_CASE, tok) # -1

Opt(o, key, dflt) == IF key \in DOMAIN o THEN o[key] ELSE dflt

\* JavaScript truthiness of a value
Truthy(v) ==
  CASE v.k \in {"null", "undefined", "nan"} -> FALSE
    [] v.k = "boolean" -> v.b
    [] v.k = "number" -> v.n # 0
    [] v.k = "string" -> v.s # <<>>
    [] OTHER -> TRUE

NoType == "null"

\* the type and the required flag a type token or constructor stands for
TypeOfExpr(e) ==
  CASE e.form = "string" -> toLowerCase(e.tok)
    [] e.form = "native" ->
         IF indexOf(NATIVE_TYPE_MAPPING, e.ctor) # -1
         THEN NATIVE_TYPE_MAPPING[indexOf(NATIVE_TYPE_MAPPING, e.ctor) + 2]
         ELSE NoType
    [] OTHER -> NoType

getPropertyField(name, expr) ==
  LET o == IF expr.form = "object" THEN expr.o ELSE EmptyMap
      isObj == expr.form = "object"
      isArr == expr.form = "array"
      \* declared is the type the token or constructor given stands for
      Field(declared) ==
        LET type ==
              IF ~isObj \/ declared # NoType THEN declared
              ELSE IF "section" \in DOMAIN o THEN "section"
              ELSE IF "struct" \in DOMAIN o THEN "struct"
              ELSE NoType
            shortcut == isObj /\ declared = NoType
                        /\ type \in {"section", "struct"}
            required ==
              IF isArr
              THEN expr.l[1].form = "string" /\ REQUIRED_RE(expr.l[1].tok)
              ELSE IF ~isObj
              THEN expr.form = "string" /\ REQUIRED_RE(expr.tok)
              \* required = expr.required || REQUIRED_RE.test(expr): the
              \* string form of a descriptor object is "[object Object]"
              ELSE Opt(o, "required", FALSE)
            param ==
              IF shortcut THEN MarkupParam(o[type])
              ELSE IF isObj /\ "param" \in DOMAIN o THEN MarkupParam(o.param)
              ELSE Null
        IN [err |-> IF indexOf(PROPERTY_TYPES, type) = -1
                    THEN NativeError(<<"Property '", name,
                                       "', unknown field type: ", type>>)
                    ELSE NoError,
            field |->
              [name |-> name,
               type |-> type,
               property |-> IF shortcut THEN Opt(o, "property", "") ELSE "",
               list |-> isArr \/ Opt(o, "list", FALSE),
               required |-> required,
               param |-> param,
               strict |-> Opt(o, "strict", FALSE),
               value |-> IF isArr
                         THEN IF Len(expr.l) > 1 THEN expr.l[2] ELSE NIL
                         ELSE Opt(o, "value", NIL),
               idxignore |-> Opt(o, "idxignore", FALSE),
               overridable |-> Opt(o, "overridable", FALSE),
               index |-> Opt(o, "index", ""),
               ns |-> Opt(o, "ns", <<>>),
               onenter |-> Opt(o, "onenter", FALSE),
               onexit |-> Opt(o, "onexit", FALSE)]]
  IN Field(IF isArr THEN TypeOfExpr(expr.l[1])
           ELSE IF ~isObj THEN TypeOfExpr(expr)
           ELSE IF "type" \in DOMAIN o THEN TypeOfExpr(o.type)
           ELSE NoType)

(***************************************************************************)
(* The compiled schema.  A scope (the root ConfigContext, or a section or  *)
(* struct field) is named by its path of field names from the root;        *)
(* context.scopes maps a path to the scope's tables, context.props is the  *)
(* dispatch table root.props.                                              *)
(***************************************************************************)
RootPath == <<>>
ScopeRef(path) == [k |-> "scope", p |-> path]

\* the properties a ConfigContext has or lacks where a field has them
RootField ==
  [name |-> "[ROOT]", type |-> "undefined", property |-> "", list |-> FALSE,
   required |-> FALSE, param |-> Null, strict |-> FALSE, value |-> NIL,
   idxignore |-> FALSE, overridable |-> FALSE, index |-> "", ns |-> <<>>,
   onenter |-> FALSE, onexit |-> FALSE]

NewScope(field, parent) ==
  [field |-> field, parent |-> parent, keys |-> <<>>, fields |-> EmptyMap,
   defaults |-> EmptyMap, defaultKeys |-> <<>>, requirements |-> <<>>,
   statics |-> EmptyMap, staticKeys |-> <<>>]

ConfigContext ==
  [scopes |-> (RootPath :> NewScope(RootField, Null)),
   props |-> {},
   err |-> NoError]

SetScope(ctx, path, scope) ==
  [ctx EXCEPT !.scopes = [q \in (DOMAIN ctx.scopes) \cup {path} |->
                            IF q = path THEN scope ELSE ctx.scopes[q]]]

SchemaThrow(ctx, msg) == [ctx EXCEPT !.err = NativeError(msg)]

\* append a key to an ordered key list unless it is there (Object.keys order)
AddKey(keys, key) == IF indexOf(keys, key) # -1 THEN keys ELSE Append(keys, key)

\* mutant: a name is looked for in every scope of the schema
alreadyDefined_Anywhere(ctx, scope, name) ==
  \E path \in DOMAIN ctx.scopes :
    \/ Has(ctx.scopes[path].fields, name)
    \/ Has(ctx.scopes[path].statics, name)

\* the duplicate test of updateSection, on the scope being compiled:
\*   scope.fields[name] || scope.statics[name]
alreadyDefined(ctx, scope, name) ==
  \/ Has(scope.fields, name)
  \/ (Has(scope.statics, name) /\ Truthy(scope.statics[name]))

\* mutant: a struct takes any field
notStructProperty_Never(scope, name) == FALSE

\* the test of updateSection on a field that is not a static:
\*   scope.type == "struct" && name !== scope.property
notStructProperty(scope, name) ==
  scope.field.type = "struct" /\ name # scope.field.property

RECURSIVE updateSection(_, _, _)
updateSection(ctx, path, markup) ==
  IF markup = <<>> \/ ctx.err # NoError THEN ctx
  ELSE
    LET name == Head(markup).name
        scope == ctx.scopes[path]
        sub == path \o <<name>>
        \* the body of the loop for the entry name, gp being what
        \* getPropertyField returned or threw
        Compile(gp) ==
          LET field == gp.field
              \* scope.defaults[name], scope.requirements[name]
              scope1 ==
                [scope EXCEPT
                   !.defaults = IF field.value # NIL
                                THEN Put(@, name, field.value) ELSE @,
                   !.defaultKeys = IF field.value # NIL
                                   THEN AddKey(@, name) ELSE @,
                   !.requirements = IF field.required
                                    THEN AddKey(@, name) ELSE @]
              \* the nested scope of a section or struct
              Nested(ctx1) ==
                IF field.type \in {"section", "struct"}
                THEN updateSection(
                       SetScope(ctx1, sub, NewScope(field, ScopeRef(path))),
                       sub, field.param.m)
                ELSE ctx1
              \* scope.fields[name] = field
              Store(ctx3) ==
                SetScope(ctx3, path,
                  [ctx3.scopes[path] EXCEPT !.fields = Put(@, name, field),
                                            !.keys = AddKey(@, name)])
              \* ns[name] = createProp(name, field.ns) unless already there
              Publish(ctx2) ==
                IF ctx2.err # NoError THEN ctx2
                ELSE Store([ctx2 EXCEPT
                              !.props = @ \cup {[ns |-> field.ns,
                                                 name |-> name]}])
          IN
          IF name \in RESERVED_NAMES
          THEN SchemaThrow(ctx, <<"Name '", name, "' is reserved.">>)
          ELSE IF alreadyDefined(ctx, scope, name)
          THEN SchemaThrow(ctx, <<"Property '", name, "' is already defined">>)
          ELSE IF gp.err # NoError THEN [ctx EXCEPT !.err = gp.err]
          ELSE IF field.type = "static"
          THEN IF field.value = NIL
               THEN SchemaThrow(ctx, <<"Property '", name,
                                       "', value of type static must be set">>)
               ELSE SetScope(ctx, path,
                      [scope EXCEPT !.statics = Put(@, name, field.value),
                                    !.staticKeys = AddKey(@, name)])
          ELSE IF field.type \in PARAM_REQUIRED /\ field.param = Null
          THEN SchemaThrow(ctx, <<"Property '", name, "', ", BackTick, "param",
                                  BackTick, " must be set for field.">>)
          ELSE IF notStructProperty(scope, name)
          THEN SchemaThrow(ctx, <<"Property '", name,
                                  "', struct's cannot contain dynamic properties.">>)
          ELSE Publish(Nested(SetScope(ctx, path, scope1)))
    IN updateSection(Compile(getPropertyField(name, Head(markup).expr)),
                     path, Tail(markup))

createContext(markup) == updateSection(ConfigContext, RootPath, markup)

(***************************************************************************)
(* The schema of the run, after examples/basic_example/example.js and the  *)
(* scenarios of the README: a required field, a namespaced field, a        *)
(* struct with a property and a static, an indexed section with a static,  *)
(* an overridable field, a required field, a list field with a default,    *)
(* a list section with a property and an index, and a field whose default  *)
(* is 0.                                                                   *)
(***************************************************************************)
LocationMarkup ==
  << Entry("url", MString("string")),
     Entry("allow", MObject([type |-> MNative("Number"),
                             value |-> Num(0)])),
     Entry("zone", MObject([type |-> MString("static"),
                            value |-> Str(<<"e", "u">>)])),
     Entry("order", MObject([type |-> MString("static"),
                             value |-> Num(0)])) >>

ServerMarkup ==
  << Entry("serverType",
           MObject([type |-> MString("static"),
                    value |-> Str(<<"h", "t", "t", "p">>)])),
     Entry("zone", MObject([type |-> MNative("Number"),
                            overridable |-> TRUE])),
     Entry("limit", MString("NUMBER")),
     Entry("deny", MObject([type |-> MString("number"), list |-> TRUE,
                            idxignore |-> TRUE,
                            value |-> Arr(<<Str(<<"7">>)>>)])),
     Entry("location", MObject([list |-> TRUE, property |-> "url",
                                index |-> "order", onexit |-> TRUE,
                                section |-> LocationMarkup])) >>

SimpleMarkup ==
  << Entry("name", MObject([type |-> MNative("String")])),
     Entry("field", MObject([type |-> MString("static"),
                             value |-> Str(<<"t", "e", "s", "t">>)])) >>

Markup ==
  << Entry("host", MString("STRING")),
     Entry("port", MObject([type |-> MString("number"),
                            ns |-> <<"net", "http">>])),
     Entry("simple", MObject([property |-> "name", struct |-> SimpleMarkup])),
     Entry("server", MObject([index |-> "_index", onenter |-> TRUE,
                              section |-> ServerMarkup])) >>

(***************************************************************************)
(* The runtime.  The operators below work on an execution record           *)
(*   [rt |-> the Runtime object, err |-> the exception in flight,          *)
(*    hooks |-> the calls made to onenter/onexit hooks, closed |-> the     *)
(*    scopes endScope has closed and their results as folded, ret |-> the  *)
(*    value the last call returned]                                        *)
(* and return the record after the call; once err is set (a throw) every   *)
(* later step of the call is skipped.                                      *)
(***************************************************************************)
Runtime(strict) ==
  [strict |-> strict,
   resultStack |-> <<>>, currentResult |-> Null,
   scopeStack |-> <<>>, currentScope |-> Null,
   indexStack |-> <<>>, currentIndex |-> Null]

Exec(rt) ==
  [rt |-> rt, err |-> NoError, hooks |-> <<>>, closed |-> <<>>,
   ret |-> Undefined]
Throw(X, e) == [X EXCEPT !.err = e]
Failed(X) == X.err # NoError

ScopeOf(ctx, ref) == ctx.scopes[ref.p]

\* Array.prototype.pop: the last element, undefined (falsy, modelled as
\* Null) on an empty array
Top(stack) == IF stack = <<>> THEN Null ELSE stack[Len(stack)]
Rest(stack) == IF stack = <<>> THEN <<>> ELSE SubSeq(stack, 1, Len(stack) - 1)

\* Runtime.prototype.push
push(rt, ctx, ref) ==
  [rt EXCEPT
     !.scopeStack = Append(@, rt.currentScope),
     !.currentScope = ref,
     !.indexStack = Append(@, rt.currentIndex),
     !.currentIndex = IF ScopeOf(ctx, ref).field.index # ""
                      THEN Arr(<<>>) ELSE Null,
     !.resultStack = Append(@, rt.currentResult),
     !.currentResult = Obj(EmptyMap)]

\* getNamespace: the target after the mappings of the dotted path have
\* been created where missing ...
RECURSIVE getNamespace(_, _)
getNamespace(target, expr) ==
  IF expr = <<>> THEN target
  ELSE LET name == Head(expr)
           obj == IF Has(target, name) THEN target[name].m ELSE EmptyMap
       IN Put(target, name, Obj(getNamespace(obj, Tail(expr))))

\* ... the mapping it returns, and the target after that mapping has been
\* replaced by m
RECURSIVE Within(_, _)
Within(target, expr) ==
  IF expr = <<>> THEN target ELSE Within(target[Head(expr)].m, Tail(expr))

RECURSIVE WithinPut(_, _, _)
WithinPut(target, expr, m) ==
  IF expr = <<>> THEN m
  ELSE Put(target, Head(expr),
           Obj(WithinPut(target[Head(expr)].m, Tail(expr), m)))

\* mutant: a value of a list goes in front of the earlier ones
pushValue_Front(r, v) == <<v>> \o r

\* result[name].push(validated)
pushValue(r, v) == Append(r, v)

\* the loop of applyResult over the elements of an array value: r is
\* result[name], idx the index (or Null); stops at the first throw
RECURSIVE applyEach(_, _, _, _, _)
applyEach(strict, field, vals, r, idx) ==
  LET Last(more, v) ==
        IF Tail(vals) = <<>> THEN [more EXCEPT !.v = v] ELSE more
      Push(vv) ==
        IF vv.err # NoError
        THEN [r |-> r, idx |-> idx, err |-> vv.err, v |-> Undefined]
        ELSE Last(applyEach(strict, field, Tail(vals), pushValue(r, vv.v),
                            IF idx # Null THEN Arr(Append(idx.l, vv.v))
                            ELSE idx),
                  vv.v)
  IN IF vals = <<>>
     THEN [r |-> r, idx |-> idx, err |-> NoError, v |-> Undefined]
     ELSE Push(validateValue(strict, field, Head(vals)))

\* mutant: a second value replaces the first
oneValueOnly_Off(field, result) == FALSE

\* the test of applyResult that guards a field of one value:
\*   field.overridable == false && (name in result)
oneValueOnly(field, result) ==
  field.overridable = FALSE /\ Has(result, field.name)

\* mutant: the namespace of a field is ignored
nsOf_Flat(field) == <<>>

\* the namespace applyResult resolves for a field, <<>> when
\* typeof field.ns is not "string"
nsOf(field) == field.ns

\* applyResult.call(runtime, field, value)
applyResult(X, field, value) ==
  LET rt == X.rt
      name == field.name
      \* index = !field.idxignore && this.currentIndex
      index == IF field.idxignore THEN Null ELSE rt.currentIndex
      top == IF nsOf(field) # <<>>
             THEN getNamespace(rt.currentResult.m, nsOf(field))
             ELSE rt.currentResult.m
      result == Within(top, nsOf(field))
      Store(res, idx, ret) ==
        [X EXCEPT
           !.rt.currentResult = Obj(WithinPut(top, nsOf(field), res)),
           !.rt.currentIndex = IF field.idxignore THEN rt.currentIndex ELSE idx,
           !.ret = ret]
      \* after the loop over the values of a list field
      List(done) ==
        Throw(Store(Put(result, name, Arr(done.r)), done.idx, done.v),
              done.err)
      \* after the validation of the value of a field of one value
      Single(vv) ==
        IF vv.err # NoError
        THEN Throw(Store(result, index, Undefined), vv.err)
        ELSE Store(Put(result, name, vv.v),
                   IF index # Null THEN Arr(Append(index.l, vv.v)) ELSE index,
                   vv.v)
  IN
  IF field.list
  THEN List(applyEach(rt.strict, field,
                      IF value.k = "array" THEN value.l ELSE <<value>>,
                      IF Has(result, name) THEN result[name].l ELSE <<>>,
                      index))
  ELSE IF oneValueOnly(field, result)
  THEN Throw(Store(result, index, Undefined),
             RuntimeError(<<"Expected one value only">>))
  ELSE Single(validateValue(rt.strict, field, value))

Reverse(seq) == [i \in 1..Len(seq) |-> seq[Len(seq) + 1 - i]]

\* the forEach of endScope over an array default of a list field: every
\* element is validated, then the element itself is pushed to target[key]
\* and to the index of the closing scope
RECURSIVE defaultEach(_, _, _, _, _)
defaultEach(strict, field, vals, r, idx) ==
  LET Push(vv) ==
        IF vv.err # NoError THEN [r |-> r, idx |-> idx, err |-> vv.err]
        ELSE defaultEach(strict, field, Tail(vals), Append(r, Head(vals)),
                         IF idx # Null THEN Arr(Append(idx.l, Head(vals)))
                         ELSE idx)
  IN IF vals = <<>> THEN [r |-> r, idx |-> idx, err |-> NoError]
     ELSE Push(validateValue(strict, field, Head(vals)))

\* mutant: a default counts only when it is truthy
hasDefault_Truthy(scope, key) ==
  Has(scope.defaults, key) /\ Truthy(scope.defaults[key])

\* the test of endScope for a declared default: key in scope.defaults
hasDefault(scope, key) == Has(scope.defaults, key)

\* mutant: a required list field gets the empty list too
emptyList_Any(field) == field.list

\* the test of endScope for the empty list of an unset field without a
\* default: field.list && !field.required
emptyList(field) == field.list /\ ~field.required

\* the first loop of endScope (defaults and empty lists), over the given
\* keys; acc is [result, index, err]
RECURSIVE applyDefaults(_, _, _, _)
applyDefaults(strict, scope, keys, acc) ==
  IF keys = <<>> \/ acc.err # NoError THEN acc
  ELSE
    LET key == Head(keys)
        field == scope.fields[key]
        defvalue == scope.defaults[key]
        \* the body of the loop, top being the result after
        \* target = field.ns ? getNamespace(result, field.ns) : result
        Body(top) ==
          LET target == Within(top, field.ns)
              Set(t) == WithinPut(top, field.ns, t)
              Each(each) ==
                [result |-> Set(Put(target, key, Arr(each.r))),
                 index |-> each.idx, err |-> each.err]
              One(vv) ==
                IF vv.err # NoError
                THEN [acc EXCEPT !.result = Set(Put(target, key, Arr(<<>>))),
                                 !.err = vv.err]
                ELSE [acc EXCEPT
                        !.result = Set(Put(target, key, Arr(<<vv.v>>)))]
              Plain(vv) ==
                IF vv.err # NoError
                THEN [acc EXCEPT !.result = top, !.err = vv.err]
                ELSE [acc EXCEPT !.result = Set(Put(target, key, vv.v))]
          IN IF Has(target, key) THEN [acc EXCEPT !.result = top]
             ELSE IF hasDefault(scope, key)
             THEN IF field.list
                  THEN IF defvalue.k = "array"
                       THEN Each(defaultEach(strict, field, defvalue.l,
                                             <<>>, acc.index))
                       ELSE One(validateValue(strict, field, defvalue))
                  ELSE Plain(validateValue(strict, field, defvalue))
             ELSE IF emptyList(field)
             THEN [acc EXCEPT !.result = Set(Put(target, key, Arr(<<>>)))]
             ELSE [acc EXCEPT !.result = top]
    IN applyDefaults(strict, scope, Tail(keys),
         Body(IF field.ns # <<>> THEN getNamespace(acc.result, field.ns)
              ELSE acc.result))

\* mutant: the required fields are not checked
checkRequirements_Skipped(scope, keys, acc) == acc

\* the second loop of endScope (required fields), over the given keys
RECURSIVE checkRequirements(_, _, _)
checkRequirements(scope, keys, acc) ==
  IF keys = <<>> \/ acc.err # NoError THEN acc
  ELSE
    LET key == Head(keys)
        field == scope.fields[key]
        top == IF field.ns # <<>> THEN getNamespace(acc.result, field.ns)
               ELSE acc.result
        target == Within(top, field.ns)
    IN checkRequirements(scope, Tail(keys),
         IF ~Has(target, key)
         THEN [acc EXCEPT
                 !.result = top,
                 !.err = RuntimeError(<<"Required property '", key, "'",
                                        "was not set.">>)]
         ELSE [acc EXCEPT !.result = top])

\* mutant: the statics are not put in the result
injectStatics_None(scope, keys, result) == result

\* the third loop of endScope (statics), over the given keys
RECURSIVE injectStatics(_, _, _)
injectStatics(scope, keys, result) ==
  IF keys = <<>> THEN result
  ELSE injectStatics(scope, Tail(keys),
                     Put(result, Head(keys), scope.statics[Head(keys)]))

\* mutant: the required fields are checked before the defaults are installed
endScopeLoops_RequiredFirst(strict, scope, acc) ==
  applyDefaults(strict, scope, Reverse(scope.keys),
                checkRequirements(scope, Reverse(scope.requirements), acc))

\* the first two loops of endScope in their order: the defaults over
\* Object.keys(scope.fields), then the check over scope.requirements
endScopeLoops(strict, scope, acc) ==
  checkRequirements(scope, Reverse(scope.requirements),
                    applyDefaults(strict, scope, Reverse(scope.keys), acc))

\* mutant: a close with no scope to close returns without an error
unexpectedEnd_Ignored(X) == X

\* if (!scope) throw new RuntimeError(this, "bad syntax, unexpected [end]")
unexpectedEnd(X) ==
  Throw(X, RuntimeError(<<"bad syntax, unexpected ", BackTick, "end",
                          BackTick>>))

\* mutant: the result of a closed scope is not folded into its parent
hasParent_Never(scope) == FALSE

\* the test of endScope before the fold: if (scope.parent)
hasParent(scope) == scope.parent # Null

\* endScope.call(runtime, scope, result, index); returns the execution
\* record and the result object as the call left it
endScope(X, ctx, ref, result, index) ==
  IF ref = Null
  THEN [X |-> unexpectedEnd(X), result |-> result]
  ELSE
    LET scope == ScopeOf(ctx, ref)
        \* if (scope.parent) applyResult.call(this, scope, result)
        Fold(res) ==
          LET X1 == [X EXCEPT !.closed = Append(@,
                       [scope |-> ref.p, result |-> res])]
          IN [X |-> IF hasParent(scope)
                    THEN applyResult(X1, scope.field, res) ELSE X1,
              result |-> res]
        \* if (scope.index) result[scope.index] = index
        Index(r3, idx) ==
          Fold(Obj(IF scope.field.index # ""
                   THEN Put(r3, scope.field.index, idx) ELSE r3))
        \* a2 is what the loops over the fields and the requirements left
        Statics(a2) ==
          IF a2.err # NoError
          THEN [X |-> Throw(X, a2.err), result |-> Obj(a2.result)]
          ELSE Index(injectStatics(scope, Reverse(scope.staticKeys),
                                   a2.result),
                     a2.index)
    IN Statics(endScopeLoops(X.rt.strict, scope,
                           [result |-> result.m, index |-> index,
                            err |-> NoError]))

\* Runtime.prototype.pop
pop(X, ctx) ==
  LET rt == X.rt
      popped == [rt EXCEPT
                   !.currentResult = Top(rt.resultStack),
                   !.resultStack = Rest(@),
                   !.currentScope = Top(rt.scopeStack),
                   !.scopeStack = Rest(@),
                   !.currentIndex = Top(rt.indexStack),
                   !.indexStack = Rest(@)]
      \* return result
      Return(ended) == [ended.X EXCEPT !.ret = ended.result]
  IN Return(endScope([X EXCEPT !.rt = popped], ctx,
                     rt.currentScope, rt.currentResult, rt.currentIndex))

\* mutant: the value of the dispatch is not applied to the property
hasProperty_Never(field) == FALSE

\* the test of createProp on the property key of a section: field.property
hasProperty(field) == field.property # ""

\* mutant: a struct is left open like a section
isStruct_Never(field) == FALSE

\* the test of createProp that closes a struct at once:
\*   field.type == "struct"
isStruct(field) == field.type = "struct"

\* mutant: the hook is given the result of the enclosing scope
enterResult_Outer(rt) == Top(rt.resultStack)

\* what createProp hands to onenter: this.currentResult
enterResult(rt) == rt.currentResult

\* mutant: the dispatch of a name the active scope does not declare
\* discards the result of the scope
undeclared_Reset(X, msg) ==
  [Throw(X, NativeError(msg)) EXCEPT !.rt.currentResult = Obj(EmptyMap)]

\* what createProp does when scope.fields[name] is missing: it throws,
\* before anything else
undeclared(X, msg) == Throw(X, NativeError(msg))

\* the property wrapper createProp(name, ns) returns, called with value
createProp(X, ctx, name, ns, value) ==
  LET rt == X.rt
      scope == ScopeOf(ctx, rt.currentScope)
  IN
  IF rt.currentScope = Null
  THEN Throw(X, NativeError(<<"Property '">> \o ns \o
                            <<name, "' cannot be defined in section '",
                              "<null>", "'">>))
  ELSE IF ~Has(scope.fields, name)
  THEN undeclared(X, <<"Property '">> \o ns \o
                     <<name, "' cannot be defined in section '",
                       scope.field.name, "'">>)
  ELSE
    LET field == scope.fields[name]
        ref == ScopeRef(rt.currentScope.p \o <<name>>)
        sub == ScopeOf(ctx, ref)
        \* if (field.type == "struct") this.pop()
        Struct(X3) ==
          [(IF Failed(X3) \/ ~isStruct(field) THEN X3 ELSE pop(X3, ctx))
             EXCEPT !.ret = Undefined]
        \* if (typeof field.onenter == "function") field.onenter(...)
        OnEnter(X2) ==
          Struct(IF Failed(X2) \/ ~field.onenter THEN X2
                 ELSE [X2 EXCEPT !.hooks = Append(@,
                         [hook |-> "onenter", scope |-> ref.p,
                          result |-> enterResult(X2.rt)])])
        \* if (field.property) applyResult.call(this, prop, value)
        Property(X1) ==
          OnEnter(IF ~hasProperty(field) THEN X1
                  ELSE IF ~Has(sub.fields, field.property)
                  THEN Throw(X1, NativeError(<<"Property '">> \o ns \o
                                             <<name, "', field not found: ",
                                               field.property>>))
                  ELSE applyResult(X1, sub.fields[field.property], value))
    IN IF field.type \in {"section", "struct"}
       THEN Property([X EXCEPT !.rt = push(rt, ctx, ref)])
       ELSE applyResult(X, field, value)

\* mutant: the hook is given an empty result
exitResult_Empty(rt) == Obj(EmptyMap)

\* what the end getter hands to onexit: var result = this.currentResult
exitResult(rt) == rt.currentResult

\* mutant: the end keyword does nothing
endGetter_NoOp(X, ctx) == X

\* the getter of the end keyword
endGetter(X, ctx) ==
  LET rt == X.rt IN
  IF rt.currentScope = Null
  THEN Throw(X, TypeError(<<"Cannot read property 'onexit' of null">>))
  ELSE LET field == ScopeOf(ctx, rt.currentScope).field
           X1 == IF ~field.onexit THEN X
                 ELSE [X EXCEPT !.hooks = Append(@,
                         [hook |-> "onexit", scope |-> rt.currentScope.p,
                          result |-> exitResult(rt)])]
       IN [pop(X1, ctx) EXCEPT !.ret = Undefined]

\* mutant: the end of the run closes the innermost open scope only
closeAll_Once(X, ctx) == pop(X, ctx)

\* the loop that ends runInContext:
\*   while ((result = runtime.pop()) && runtime.currentScope);
RECURSIVE closeAll(_, _)
closeAll(X, ctx) ==
  LET While(X1) ==
        IF Failed(X1) THEN X1
        ELSE IF Truthy(X1.ret) /\ X1.rt.currentScope # Null
        THEN closeAll(X1, ctx)
        ELSE X1
  IN While(pop(X, ctx))

(***************************************************************************)
(* Paths and files.  A path of a script is its text, whether it starts     *)
(* with "/", and its segments; a resolved path and a directory are the     *)
(* sequence of their segments from the root of the file system.  The file  *)
(* system holds the files Files; fs.readdirSync lists them in that order.  *)
(***************************************************************************)
Path(text, abs, segs) == [text |-> text, abs |-> abs, segs |-> segs]

Files ==
  << <<"etc", "app", "a.conf">>,
     <<"etc", "app", "sites", "b.conf">>,
     <<"etc", "app", "sites", "c.conf">> >>

\* process.cwd(), the workdir of a new Script
Workdir == <<"etc", "app">>

\* path.join and the resolution of "." and ".." by the file system
RECURSIVE normalize(_, _)
normalize(acc, segs) ==
  IF segs = <<>> THEN acc
  ELSE IF Head(segs) = "." THEN normalize(acc, Tail(segs))
  ELSE IF Head(segs) = ".." THEN normalize(Rest(acc), Tail(segs))
  ELSE normalize(Append(acc, Head(segs)), Tail(segs))

join(dir, segs) == normalize(<<>>, dir \o segs)

basename(segs) == IF segs = <<>> THEN "" ELSE segs[Len(segs)]
dirname(segs) == Rest(segs)

\* path[0] == "/"
isAbsolute(path) == path.abs

\* /\.\.\//.test(path): a ".." segment followed by a "/"
hasParentRef(path) ==
  \E i \in 1..(Len(path.segs) - 1) : path.segs[i] = ".."

\* path[0] == ".": the path starts with "./" or "../"
startsWithDot(path) ==
  ~path.abs /\ path.segs # <<>> /\ path.segs[1] \in {".", ".."}

\* /\*|\?/.test(name) for the file names of the scripts
WILDCARD_NAMES == {"*.conf", "*.none"}
isWildcard(name) == name \in WILDCARD_NAMES

\* wildcardPattern(pattern).test(file)
wildcardTest(pattern, file) ==
  <<pattern, file>> \in {<<"*.conf", "a.conf">>, <<"*.conf", "b.conf">>,
                         <<"*.conf", "c.conf">>}

\* isKind of resolvePath: fs.statSync(path).isFile() or .isDirectory()
isKind(kind, segs) ==
  IF kind = "dir"
  THEN \E i \in 1..Len(Files) :
         Len(Files[i]) > Len(segs) /\ SubSeq(Files[i], 1, Len(segs)) = segs
  ELSE \E i \in 1..Len(Files) : Files[i] = segs

\* what resolvePath returns: null, a file, or the files of a wildcard
OneFile(segs) == [k |-> "file", p |-> segs]
ManyFiles(l) == [k |-> "files", l |-> l]

\* resolveKind of resolvePath, the search paths of the runtime being empty
resolveKind(self, path, kind, segs) ==
  LET Found(newpath) == IF isKind(kind, newpath) THEN newpath ELSE <<>>
  IN IF path.abs THEN Found(normalize(<<>>, segs))
     ELSE IF startsWithDot(path) THEN Found(join(self.workdir, segs))
     ELSE <<>>

\* mutant: an isolated runtime resolves every path
rejects_Never(self, path) == FALSE

\* the guard of resolvePath on the paths an isolated runtime refuses
rejects(self, path) ==
  self.isolated /\ (isAbsolute(path) \/ hasParentRef(path))

\* Runtime.prototype.resolvePath(path, true) of the runtime self
resolvePath(self, path) ==
  LET InDir(dirpath) ==
        IF dirpath = <<>> THEN Null
        ELSE ManyFiles(SelectSeq(Files,
               LAMBDA file :
                 /\ dirname(file) = dirpath
                 /\ wildcardTest(basename(path.segs), basename(file))))
      File(filepath) ==
        IF filepath = <<>> THEN Null ELSE OneFile(filepath)
  IN IF rejects(self, path) THEN Null
     ELSE IF isWildcard(basename(path.segs))
     THEN InDir(resolveKind(self, path, "dir", dirname(path.segs)))
     ELSE File(resolveKind(self, path, "file", path.segs))

\* the runtime of one script: what a Runtime object holds besides the
\* stacks it shares with the runtimes of the scripts including it.  self
\* is the active scope, result and index of the including runtime, rest
\* the files the forEach of the include has yet to run, env the names of
\* the environment, depth (history) the depth of the scope stack when the
\* include was called
Frame(file, isolated, env, rest, self, depth) ==
  [file |-> file, workdir |-> dirname(file), isolated |-> isolated,
   env |-> env, rest |-> rest, self |-> self, depth |-> depth]

\* the runtime runInContext makes for the script
ScriptFrame(isolated, env) ==
  [file |-> <<>>, workdir |-> Workdir, isolated |-> isolated, env |-> env,
   rest |-> <<>>, self |-> Null, depth |-> 0]

(***************************************************************************)
(* The run of a script: Script.prototype.runInContext.  The script is the  *)
(* sequence of dispatches and ends the actions below choose; an exception  *)
(* thrown inside the script leaves through the catch of runScript.         *)
(*                                                                         *)
(* History variables (not program state):                                  *)
(*   lastOp     the last operation of the script, the type of the field    *)
(*              it dispatched and the type dispatched by the one before;   *)
(*   closedLog  the scopes the last step closed, with their results;       *)
(*   assigned   for every open scope, innermost last, the successful       *)
(*              assignments made while it was the active scope;            *)
(*   nops, nincludes  the operations and the includes of the run so far.   *)
(* frames holds the runtime of the script and, above it, the runtimes of   *)
(* the included scripts that are running.                                  *)
(***************************************************************************)
\* the values a script passes to a property
Values == {Num(1), Str(<<"2">>), Str(<<"x">>)}

Op(op, name, value, kind, prev) ==
  [op |-> op, name |-> name, value |-> value, kind |-> kind, prev |-> prev]

\* an entry of the history of assignments: the value coerced for a field
\* by a set of the script (src "set"), or the result of a child scope folded
\* in when it closed (src "fold"); ign is the idxignore of the field
Assigned(src, field, v) ==
  [src |-> src, name |-> field.name, ign |-> field.idxignore, v |-> v]

RECURSIVE Coerced(_, _, _)
Coerced(strict, field, vals) ==
  IF vals = <<>> THEN <<>>
  ELSE <<Assigned("set", field, validateValue(strict, field, Head(vals)).v)>>
       \o Coerced(strict, field, Tail(vals))

\* the history entries a successful assignment of value to field makes
Assignments(strict, field, value) ==
  IF field.list /\ value.k = "array" THEN Coerced(strict, field, value.l)
  ELSE Coerced(strict, field, <<value>>)

\* the history after the scope on top of it closed into its parent
Folded(ctx, hist, closedEntry) ==
  LET field == ctx.scopes[closedEntry.scope].field
      rest == Rest(hist)
  IN IF rest = <<>> THEN rest
     ELSE [rest EXCEPT ![Len(rest)] =
             Append(@, Assigned("fold", field, closedEntry.result))]

Init ==
  /\ context = createContext(Markup)
  /\ runtime = push(Runtime(FALSE), context, ScopeRef(RootPath))
  /\ frames = <<ScriptFrame(FALSE, {})>>
  /\ phase = "running"
  /\ error = NoError
  /\ returned = Undefined
  /\ hooks = <<>>
  /\ lastOp = Op("start", "", Undefined, "", "")
  /\ closedLog = <<>>
  /\ assigned = << <<>> >>
  /\ nops = 0
  /\ nincludes = 0

\* the execution record a call of the script starts from
Start == [Exec(runtime) EXCEPT !.hooks = hooks]

\* the type of the field the active scope declares under name, if any
KindOf(name) ==
  IF runtime.currentScope # Null
     /\ Has(ScopeOf(context, runtime.currentScope).fields, name)
  THEN ScopeOf(context, runtime.currentScope).fields[name].type
  ELSE ""

\* what is common to the steps of the script: the runtime the call left,
\* and the end of the run when the call threw
Step(X, op) ==
  /\ runtime' = X.rt
  /\ hooks' = X.hooks
  /\ closedLog' = X.closed
  /\ lastOp' = op
  /\ nops' = nops + 1
  /\ error' = runScriptCatch(X.err)
  /\ phase' = IF Failed(X) THEN "failed" ELSE "running"
  /\ UNCHANGED <<context, frames, returned, nincludes>>

\* the script assigns value v to the property p
Dispatch(p, v) ==
  /\ phase = "running"
  /\ nops < MaxOps
  /\ LET scope == ScopeOf(context, runtime.currentScope)
         field == scope.fields[p.name]
         sub == ScopeOf(context, ScopeRef(runtime.currentScope.p \o <<p.name>>))
         top == assigned[Len(assigned)]
         opened == IF field.property = "" THEN <<>>
                   ELSE Assignments(runtime.strict,
                                    sub.fields[field.property], v)
         Called(X) ==
           /\ Step(X, Op("set", p.name, v, KindOf(p.name), lastOp.kind))
           /\ assigned' =
                IF Failed(X) THEN assigned
                ELSE IF field.type \in {"section", "struct"}
                THEN IF X.closed = <<>> THEN Append(assigned, opened)
                     ELSE Folded(context, Append(assigned, opened),
                                 X.closed[1])
                ELSE [assigned EXCEPT ![Len(assigned)] =
                        top \o Assignments(runtime.strict, field, v)]
     IN Called(createProp(Start, context, p.name, p.ns, v))

\* the script names the property p without arguments: the getter that
\* defineProperties installs is the setter, called with no value
Get(p) == Dispatch(p, Undefined)

\* the script executes the end keyword
End ==
  /\ phase = "running"
  /\ nops < MaxOps
  /\ LET Called(X) ==
           /\ Step(X, Op("end", "", Undefined, "", lastOp.kind))
           /\ assigned' = IF Failed(X) \/ X.closed = <<>> THEN assigned
                          ELSE Folded(context, assigned, X.closed[1])
     IN Called(endGetter(Start, context))

\* the script has run to its end: the scopes left open are closed and the
\* result of the last one is returned
Finish ==
  /\ phase = "running"
  /\ Len(frames) = 1
  /\ LET Called(X) ==
           /\ runtime' = X.rt
           /\ hooks' = X.hooks
           /\ closedLog' = X.closed
           /\ lastOp' = Op("finish", "", Undefined, "", lastOp.kind)
           /\ error' = X.err
           /\ phase' = IF Failed(X) THEN "failed" ELSE "done"
           /\ returned' = IF Failed(X) THEN Undefined ELSE X.ret
           /\ assigned' = <<>>
           /\ UNCHANGED <<context, frames, nops, nincludes>>
     IN Called(closeAll(Start, context))

Next ==
  \/ \E p \in context.props : \E v \in Values : Dispatch(p, v)
  \/ \E p \in context.props : Get(p)
  \/ End
  \/ Finish

Spec == Init /\ [][Next]_vars

(***************************************************************************)
(* A run whose script also calls define.  The script defines at most       *)
(* MaxDefines new names, out of: the name of a root field, a name only a   *)
(* section declares, two new statics (one truthy, one 0) and the name of a *)
(* property of the context object.                                         *)
(***************************************************************************)
MaxDefines == 2

\* the own properties of a ConfigContext
CONTEXT_KEYS ==
  {"name", "root", "parent", "fields", "defaults", "requirements",
   "statics", "field", "index", "props"}

\* mutant: the guard of define finds nothing defined
isDefined_Never(ctx, name) == FALSE

\* the guard of defineImpl: typeof context[name] !== "undefined"
isDefined(ctx, name) == name \in CONTEXT_KEYS

\* mutant: define extends the active scope
defineScope_Active(rt) ==
  IF rt.currentScope = Null THEN RootPath ELSE rt.currentScope.p

\* the scope defineImpl extends: runtime.context, the root
defineScope(rt) == RootPath

\* defineImpl(name, markup) called from a script; returns the execution
\* record and the schema as the call left it
defineImpl(X, ctx, name, expr) ==
  LET Updated(updated) ==
        IF updated.err # NoError
        THEN [X |-> Throw(X, RuntimeError(updated.err.msg)),
              ctx |-> [updated EXCEPT !.err = NoError]]
        ELSE [X |-> X, ctx |-> updated]
  IN IF isDefined(ctx, name)
     THEN [X |-> Throw(X, RuntimeError(<<"already defined">>)), ctx |-> ctx]
     ELSE Updated(updateSection(ctx, defineScope(X.rt),
                                <<Entry(name, expr)>>))

Definitions ==
  { Entry("host", MString("string")),
    Entry("limit", MString("number")),
    Entry("mode", MObject([type |-> MString("static"),
                           value |-> Str(<<"x">>)])),
    Entry("flag", MObject([type |-> MString("static"), value |-> Num(0)])),
    Entry("fields", MString("string")) }

\* the names of the root scope, fields and statics
RootNames(ctx) ==
  DOMAIN ctx.scopes[RootPath].fields \cup DOMAIN ctx.scopes[RootPath].statics

\* the script calls define(name, expr)
Define(name, expr) ==
  /\ phase = "running"
  /\ nops < MaxOps
  /\ Cardinality(RootNames(context))
       < Cardinality(RootNames(createContext(Markup))) + MaxDefines
  /\ LET Called(r) ==
           /\ context' = r.ctx
           /\ runtime' = r.X.rt
           /\ error' = runScriptCatch(r.X.err)
           /\ phase' = IF Failed(r.X) THEN "failed" ELSE "running"
     IN Called(defineImpl(Start, context, name, expr))
  /\ lastOp' = Op("define", name, MarkupParam(<<Entry(name, expr)>>), "",
                  lastOp.kind)
  /\ nops' = nops + 1
  /\ UNCHANGED <<frames, returned, hooks, closedLog, assigned, nincludes>>

NextDefine ==
  \/ \E p \in context.props : Dispatch(p, Num(1))
  \/ End
  \/ Finish
  \/ \E d \in Definitions : Define(d.name, d.expr)

SpecDefine == Init /\ [][NextDefine]_vars

(***************************************************************************)
(* A run from the call of runInContext, whose script also calls include.   *)
(* The scripts of the files are, like the script of the run, the steps the *)
(* actions choose; the end of the script of a file is the action Return.   *)
(* At most MaxFrames runtimes exist at a time (the script and the scripts  *)
(* included, nested), and the scripts call include MaxIncludes times in    *)
(* all; they dispatch the properties ScriptProps.                          *)
(***************************************************************************)
MaxFrames == 3

\* number of calls of include in one run
MaxIncludes == 3

\* mutant: no name of the environment is reserved
reserved_None(env) == {}

\* the names of the environment RESERVED_NAMES_RE matches
reserved(env) == env \cap RESERVED_NAMES

\* the loop of createSandbox over the environment: the error it throws
createSandbox(env) ==
  IF reserved(env) # {}
  THEN NativeError(<<"Environment property '",
                     CHOOSE name \in reserved(env) : TRUE,
                     "' is reserved.">>)
  ELSE NoError

\* mutant: the including runtime keeps its own variables
copy_Stale(self, rt) == self

\* Runtime.prototype.copy: self takes the stacks and the active scope,
\* result and index of rt
copy(self, rt) ==
  [self EXCEPT !.resultStack = rt.resultStack,
               !.currentResult = rt.currentResult,
               !.scopeStack = rt.scopeStack,
               !.currentScope = rt.currentScope,
               !.indexStack = rt.indexStack,
               !.currentIndex = rt.currentIndex]

\* the active scope, result and index a runtime holds
Current(rt) ==
  [currentResult |-> rt.currentResult, currentScope |-> rt.currentScope,
   currentIndex |-> rt.currentIndex]

\* the including runtime while the included script ran: its stacks are
\* the arrays the included runtime worked on, its active scope, result and
\* index are as the include found them
Includer(rt, self) ==
  [rt EXCEPT !.currentResult = self.currentResult,
             !.currentScope = self.currentScope,
             !.currentIndex = self.currentIndex]

\* mutant: the scope the included script left open is closed
includeReturn_Closing(X, ctx, frame) == pop(X, ctx)

\* what follows runScript in the forEach of includeImpl: self.copy(runtime)
includeReturn(X, ctx, frame) ==
  [X EXCEPT !.rt = copy(Includer(X.rt, frame.self), X.rt)]

\* mutant: a wildcard that matches no file counts as not found
notFound_Empty(resolved) == resolved \in {Null, ManyFiles(<<>>)}

\* the test of includeImpl on what resolvePath returned: resolvedPath == null
notFound(resolved) == resolved = Null

\* the environment of an include: arguments[1] if it is an object
envOf(a1) == IF a1.k = "object" THEN DOMAIN a1.m ELSE {}

\* the isolation of an include: env && arguments[2] || arguments[1]
isolatedOf(a1, a2) == Truthy(IF Truthy(a2) THEN a2 ELSE a1)

EnvObject(names) == Obj([name \in names |-> Num(1)])

IncludePaths ==
  { Path("./a.conf", FALSE, <<".", "a.conf">>),
    Path("/etc/app/a.conf", TRUE, <<"etc", "app", "a.conf">>),
    Path("../app/a.conf", FALSE, <<"..", "app", "a.conf">>),
    Path("./none.conf", FALSE, <<".", "none.conf">>),
    Path("./sites/*.conf", FALSE, <<".", "sites", "*.conf">>),
    Path("./sites/*.none", FALSE, <<".", "sites", "*.none">>) }

\* the arguments after the path: none, the isolation flag, an environment,
\* an environment with a reserved name and the isolation flag
IncludeArgs ==
  { <<Undefined, Undefined>>,
    <<Bool(TRUE), Undefined>>,
    <<EnvObject({"user"}), Undefined>>,
    <<EnvObject({"define"}), Bool(TRUE)>> }

Envs == { {}, {"user"}, {"end"} }

ScriptProps ==
  {p \in context.props : p.name \in {"host", "server", "limit", "location"}}

InitRun ==
  /\ context = createContext(Markup)
  /\ runtime = Runtime(FALSE)
  /\ frames = <<>>
  /\ phase = "created"
  /\ error = NoError
  /\ returned = Undefined
  /\ hooks = <<>>
  /\ lastOp = Op("start", "", Undefined, "", "")
  /\ closedLog = <<>>
  /\ assigned = <<>>
  /\ nops = 0
  /\ nincludes = 0

\* script.runInContext(context, env) up to the start of the script; the
\* error of createSandbox reaches the caller as it is
RunInContext(env, isolated) ==
  /\ phase = "created"
  /\ frames' = <<ScriptFrame(isolated, env)>>
  /\ error' = createSandbox(env)
  /\ phase' = IF error' # NoError THEN "failed" ELSE "running"
  /\ runtime' = IF error' # NoError THEN runtime
                ELSE push(runtime, context, ScopeRef(RootPath))
  /\ assigned' = IF error' # NoError THEN assigned ELSE << <<>> >>
  /\ lastOp' = Op("runInContext", "", EnvObject(env), "", "")
  /\ UNCHANGED <<context, returned, hooks, closedLog, nops, nincludes>>

\* the script calls include(path, a1, a2), up to the start of the script
\* of the first file
Include(path, a1, a2) ==
  /\ phase = "running"
  /\ nops < MaxOps
  /\ nincludes < MaxIncludes
  /\ LET self == Top(frames)
         Enter(list) ==
           IF list = <<>> THEN [err |-> NoError, frames |-> frames]
           ELSE [err |-> createSandbox(envOf(a1)),
                 frames |->
                   Append(frames,
                     Frame(Head(list),
                           self.isolated \/ isolatedOf(a1, a2),
                           envOf(a1), Tail(list), Current(runtime),
                           Len(runtime.scopeStack)))]
         Resolved(r) ==
           IF notFound(r)
           THEN [err |-> RuntimeError(<<"Include not found '", path.text,
                                        "'">>),
                 frames |-> frames]
           ELSE Enter(IF r.k = "file" THEN <<r.p>> ELSE r.l)
         Called(out) ==
           /\ Len(out.frames) <= MaxFrames
           /\ error' = runScriptCatch(out.err)
           /\ phase' = IF out.err # NoError THEN "failed" ELSE "running"
           /\ frames' = IF out.err # NoError THEN frames ELSE out.frames
           /\ runtime' = IF out.err # NoError \/ out.frames = frames
                         THEN runtime
                         ELSE copy(Runtime(runtime.strict), runtime)
     IN Called(Resolved(resolvePath(self, path)))
  /\ lastOp' = Op("include", path.text,
                  [k |-> "include", path |-> path, a1 |-> a1, a2 |-> a2],
                  "", lastOp.kind)
  /\ nops' = nops + 1
  /\ nincludes' = nincludes + 1
  /\ closedLog' = <<>>
  /\ UNCHANGED <<context, returned, hooks, assigned>>

\* the script of an included file has run to its end: the including
\* runtime takes over the state, and the forEach goes on to the next file
Return ==
  /\ phase = "running"
  /\ Len(frames) > 1
  /\ LET frame == Top(frames)
         Returned(X) ==
           /\ runtime' = X.rt
           /\ hooks' = X.hooks
           /\ closedLog' = X.closed
           /\ error' = runScriptCatch(X.err)
           /\ phase' = IF Failed(X) THEN "failed" ELSE "running"
           /\ frames' =
                IF Failed(X) THEN frames
                ELSE IF frame.rest = <<>> THEN Rest(frames)
                ELSE [frames EXCEPT ![Len(frames)] =
                        Frame(Head(frame.rest), frame.isolated, frame.env,
                              Tail(frame.rest), Current(X.rt), frame.depth)]
     IN Returned(includeReturn(Start, context, frame))
  /\ lastOp' = Op("return", "", Num(Top(frames).depth), "", lastOp.kind)
  /\ UNCHANGED <<context, returned, assigned, nops, nincludes>>

NextInclude ==
  \/ \E env \in Envs : \E isolated \in BOOLEAN : RunInContext(env, isolated)
  \/ \E p \in ScriptProps : Dispatch(p, Num(1))
  \/ End
  \/ Finish
  \/ \E path \in IncludePaths : \E args \in IncludeArgs :
       Include(path, args[1], args[2])
  \/ Return

SpecInclude == InitRun /\ [][NextInclude]_vars

(***************************************************************************)
(* The compilation of a markup, taken alone: createContext is given a      *)
(* markup of one entry whose expression is a type token, in one of three   *)
(* spellings, as a bare string, in an array, or in a descriptor with or    *)
(* without an explicit required flag, or is a native constructor.          *)
(***************************************************************************)
Spellings == {PROPERTY_TYPES, UPPER_CASE, MIXED_CASE}

Tokens == {spelling[i] : spelling \in Spellings, i \in 1..Len(PROPERTY_TYPES)}

Constructors == {"Boolean", "String", "Number", "Array", "Object", "RegExp"}

Exprs ==
  {MString(tok) : tok \in Tokens}
    \cup {MArray(<<MString(tok)>>) : tok \in Tokens}
    \cup {MObject([type |-> MString(tok)]) : tok \in Tokens}
    \cup {MObject([type |-> MString(tok), required |-> b]) :
            tok \in Tokens, b \in BOOLEAN}
    \cup {MNative(ctor) : ctor \in Constructors}

InitMarkup ==
  /\ context = ConfigContext
  /\ runtime = Runtime(FALSE)
  /\ frames = <<>>
  /\ phase = "markup"
  /\ error = NoError
  /\ returned = Undefined
  /\ hooks = <<>>
  /\ lastOp = Op("start", "", Undefined, "", "")
  /\ closedLog = <<>>
  /\ assigned = <<>>
  /\ nops = 0
  /\ nincludes = 0

\* createContext({f: expr})
CreateContext(expr) ==
  /\ phase = "markup"
  /\ context' = createContext(<<Entry("f", expr)>>)
  /\ phase' = IF context'.err = NoError THEN "compiled" ELSE "failed"
  /\ error' = context'.err
  /\ lastOp' = Op("createContext", "f", MarkupParam(<<Entry("f", expr)>>),
                  "", "")
  /\ UNCHANGED <<runtime, frames, returned, hooks, closedLog, assigned,
                 nops, nincludes>>

NextMarkup == \E expr \in Exprs : CreateContext(expr)

SpecMarkup == InitMarkup /\ [][NextMarkup]_vars

(***************************************************************************)
(* The coercion of one value, taken alone: the schema is {f: {type: t,     *)
(* strict: s}} for a type t that validateValue coerces, the script runs    *)
(* with script.strict set or not, and assigns to f a value out of          *)
(* CoerceValues.                                                           *)
(***************************************************************************)
CoerceTypes ==
  {"boolean", "string", "number", "array", "object", "regexp", "bytesize",
   "timeunit"}

\* the values given: numbers, not-a-number, the strings of the number,
\* bytesize and timeunit forms and strings outside them, and a value of
\* every other kind
CoerceValues ==
  {Num(42), NaN, Bool(FALSE), Null, Arr(<<Num(1)>>), Obj(EmptyMap),
   RegExp(<<"a">>),
   Str(<<"4", "2">>), Str(<<"a", "b", "c">>), Str(<<"4", "2", "a">>),
   Str(<<"2", "m", "b">>), Str(<<"1", "0", "2", "4">>),
   Str(<<"3", "k", "b">>), Str(<<"1", "g", "b">>), Str(<<"7", "b">>),
   Str(<<"1", "h">>), Str(<<"5", "0", "0">>), Str(<<"2", "m">>),
   Str(<<"9", "s">>), Str(<<"1", "d">>), Str(<<"8", "m", "s">>),
   Str(<<"1", ".", "5", "k", "b">>), Str(<<".">>), Str(<<"2", "x">>),
   Str(<<"(">>)}

InitValidate ==
  /\ \E t \in CoerceTypes : \E s \in BOOLEAN :
       context = createContext(<<Entry("f", MObject([type |-> MString(t),
                                                     strict |-> s]))>>)
  /\ \E strict \in BOOLEAN :
       runtime = push(Runtime(strict), context, ScopeRef(RootPath))
  /\ frames = <<ScriptFrame(FALSE, {})>>
  /\ phase = "running"
  /\ error = NoError
  /\ returned = Undefined
  /\ hooks = <<>>
  /\ lastOp = Op("start", "", Undefined, "", "")
  /\ closedLog = <<>>
  /\ assigned = << <<>> >>
  /\ nops = 0
  /\ nincludes = 0

NextValidate ==
  \/ \E p \in context.props : \E v \in CoerceValues : Dispatch(p, v)
  \/ End
  \/ Finish

SpecValidate == InitValidate /\ [][NextValidate]_vars

(***************************************************************************)
(* A run over a schema of sections with hooks and defaults: pool, a        *)
(* section with a property key, an index, both hooks, a static and list    *)
(* fields whose defaults are an array and a single value, and in it slot,  *)
(* a section with a required field, a required field that has a default,   *)
(* and a static; pair, a struct with a property key and an onenter hook;   *)
(* group, a section with a required and a plain list field; box, a section *)
(* whose string field has the default null.                                *)
(***************************************************************************)
SlotMarkup ==
  << Entry("size", MString("NUMBER")),
     Entry("level", MObject([type |-> MString("number"), required |-> TRUE,
                             value |-> Str(<<"3">>)])),
     Entry("unit", MObject([type |-> MString("static"),
                            value |-> Str(<<"u">>)])) >>

PoolMarkup ==
  << Entry("id", MString("number")),
     Entry("tags", MObject([type |-> MString("number"), list |-> TRUE,
                            value |-> Arr(<<Str(<<"7">>), Num(8)>>)])),
     Entry("skip", MObject([type |-> MString("number"), list |-> TRUE,
                            idxignore |-> TRUE,
                            value |-> Arr(<<Str(<<"5">>)>>)])),
     Entry("ports", MObject([type |-> MString("number"), list |-> TRUE,
                             value |-> Str(<<"9">>)])),
     Entry("kind", MObject([type |-> MString("static"),
                            value |-> Str(<<"p">>)])),
     Entry("slot", MObject([section |-> SlotMarkup])) >>

PairMarkup ==
  << Entry("key", MString("number")),
     Entry("tag", MObject([type |-> MString("static"),
                           value |-> Str(<<"t">>)])) >>

GroupMarkup ==
  << Entry("names", MObject([type |-> MNative("String"), list |-> TRUE,
                             required |-> TRUE])),
     Entry("opts", MArray(<<MNative("String")>>)) >>

BoxMarkup ==
  << Entry("label", MObject([type |-> MNative("String"), value |-> Null])) >>

CloseMarkup ==
  << Entry("pool", MObject([property |-> "id", index |-> "_index",
                            onenter |-> TRUE, onexit |-> TRUE,
                            section |-> PoolMarkup])),
     Entry("pair", MObject([property |-> "key", onenter |-> TRUE,
                            struct |-> PairMarkup])),
     Entry("group", MObject([section |-> GroupMarkup])),
     Entry("box", MObject([section |-> BoxMarkup])) >>

\* the values the script of this run passes to a property
CloseValues == {Num(1), Str(<<"x">>)}

InitClose ==
  /\ context = createContext(CloseMarkup)
  /\ runtime = push(Runtime(FALSE), context, ScopeRef(RootPath))
  /\ frames = <<ScriptFrame(FALSE, {})>>
  /\ phase = "running"
  /\ error = NoError
  /\ returned = Undefined
  /\ hooks = <<>>
  /\ lastOp = Op("start", "", Undefined, "", "")
  /\ closedLog = <<>>
  /\ assigned = << <<>> >>
  /\ nops = 0
  /\ nincludes = 0

NextClose ==
  \/ \E p \in context.props : \E v \in CloseValues : Dispatch(p, v)
  \/ End
  \/ Finish

SpecClose == InitClose /\ [][NextClose]_vars

(***************************************************************************)
(* Runs over schemas in which names repeat and over schemas with structs.  *)
(* In the first three the name item is a plain field in one scope and a    *)
(* section or a struct in another; the others declare the struct pt with   *)
(* its property key alone, with statics, with a second dynamic field, with *)
(* a dynamic field and no property key, with a property key that names no  *)
(* field, and with a section as its property key field.  The script may    *)
(* also define item, v or box at run time.                                 *)
(***************************************************************************)
ValueMarkup == <<Entry("v", MString("number"))>>

FieldThenSection ==
  << Entry("item", MString("string")),
     Entry("box", MObject([section |->
       <<Entry("item", MObject([section |-> ValueMarkup]))>>])) >>

SectionThenField ==
  << Entry("item", MObject([section |-> ValueMarkup])),
     Entry("box", MObject([section |->
       <<Entry("item", MString("string"))>>])) >>

FieldThenStruct ==
  << Entry("item", MString("number")),
     Entry("box", MObject([section |->
       <<Entry("item", MObject([property |-> "v",
                                struct |-> ValueMarkup]))>>])) >>

StructMarkup(property, param) ==
  <<Entry("pt", MObject([property |-> property, struct |-> param]))>>

StaticEntry(name) ==
  Entry(name, MObject([type |-> MString("static"), value |-> Num(2)]))

StructMarkups ==
  { StructMarkup("v", ValueMarkup),
    StructMarkup("v", ValueMarkup \o <<StaticEntry("y")>>),
    StructMarkup("v", ValueMarkup \o <<Entry("y", MString("number"))>>),
    StructMarkup("v", <<Entry("y", MString("number"))>> \o ValueMarkup),
    StructMarkup("", ValueMarkup),
    StructMarkup("v", <<StaticEntry("y")>>),
    StructMarkup("v", <<Entry("v", MObject([section |-> ValueMarkup]))>>) }

NameMarkups ==
  {FieldThenSection, SectionThenField, FieldThenStruct} \cup StructMarkups

NameDefinitions ==
  { Entry("item", MString("string")),
    Entry("v", MObject([section |-> <<Entry("item", MString("number"))>>])),
    Entry("box", MString("number")) }

\* createContext(markup), and runInContext of a script if it compiled
InitNames ==
  /\ \E markup \in NameMarkups :
       /\ context = createContext(markup)
       /\ lastOp = Op("createContext", "", MarkupParam(markup), "", "")
  /\ runtime = IF context.err = NoError
               THEN push(Runtime(FALSE), context, ScopeRef(RootPath))
               ELSE Runtime(FALSE)
  /\ frames = <<ScriptFrame(FALSE, {})>>
  /\ phase = IF context.err = NoError THEN "running" ELSE "failed"
  /\ error = context.err
  /\ returned = Undefined
  /\ hooks = <<>>
  /\ closedLog = <<>>
  /\ assigned = << <<>> >>
  /\ nops = 0
  /\ nincludes = 0

\* the script calls define(name, expr)
DefineName(name, expr) ==
  /\ phase = "running"
  /\ nops < MaxOps
  /\ LET Called(r) ==
           /\ context' = r.ctx
           /\ runtime' = r.X.rt
           /\ error' = runScriptCatch(r.X.err)
           /\ phase' = IF Failed(r.X) THEN "failed" ELSE "running"
     IN Called(defineImpl(Start, context, name, expr))
  /\ lastOp' = Op("define", name, MarkupParam(<<Entry(name, expr)>>), "",
                  lastOp.kind)
  /\ nops' = nops + 1
  /\ UNCHANGED <<frames, returned, hooks, closedLog, assigned, nincludes>>

NextNames ==
  \/ \E p \in context.props : \E v \in CloseValues : Dispatch(p, v)
  \/ End
  \/ Finish
  \/ \E d \in NameDefinitions : DefineName(d.name, d.expr)

SpecNames == InitNames /\ [][NextNames]_vars

(***************************************************************************)
(* Helpers of the properties.                                              *)
(***************************************************************************)
\* whether mapping m holds key under the dotted path ns
RECURSIVE HasField(_, _, _)
HasField(m, ns, key) ==
  IF ns = <<>> THEN key \in DOMAIN m
  ELSE /\ Head(ns) \in DOMAIN m
       /\ m[Head(ns)].k = "object"
       /\ HasField(m[Head(ns)].m, Tail(ns), key)

\* the value mapping m holds for key under the dotted path ns
RECURSIVE FieldAt(_, _, _)
FieldAt(m, ns, key) ==
  IF ns = <<>> THEN m[key] ELSE FieldAt(m[Head(ns)].m, Tail(ns), key)

\* the open scopes, innermost first, each with its in-progress result
OpenScopes(rt) ==
  IF Len(rt.scopeStack) < 2
  THEN <<[ref |-> rt.currentScope, result |-> rt.currentResult]>>
  ELSE <<[ref |-> rt.currentScope, result |-> rt.currentResult]>> \o
       [i \in 1..(Len(rt.scopeStack) - 1) |->
          [ref |-> rt.scopeStack[Len(rt.scopeStack) + 1 - i],
           result |-> rt.resultStack[Len(rt.scopeStack) + 1 - i]]]

\* the required fields without a default that the result of a scope lacks
Unset(ctx, ref, result) ==
  LET scope == ScopeOf(ctx, ref) IN
  {key \in DOMAIN scope.fields :
     /\ scope.fields[key].required
     /\ ~Has(scope.defaults, key)
     /\ ~HasField(result.m, scope.fields[key].ns, key)}

RequiredMessage(key) ==
  RuntimeError(<<"Required property '", key, "'", "was not set.">>)

(***************************************************************************)
(* C1.  A required field without a default must be set before its scope   *)
(* closes: an end, or the forced close at the end of the run, of a scope   *)
(* (root or section) whose result lacks such a field fails the run, which  *)
(* returns no result; the required error names a field only when that      *)
(* field was not set, and every scope that did close holds all of them.    *)
(***************************************************************************)
C1_RequiredEnforced ==
  [][/\ ( /\ lastOp'.op = "end"
          /\ runtime.currentScope # Null
          /\ Unset(context, runtime.currentScope, runtime.currentResult) # {} )
        => (phase' = "failed" /\ returned' = Undefined)
     /\ ( /\ lastOp'.op = "finish"
          /\ \E i \in 1..Len(OpenScopes(runtime)) :
               LET open == OpenScopes(runtime) IN
               /\ open[i].ref # Null
               /\ \E key \in Unset(context, open[i].ref, open[i].result) :
                    \* the inner open scope is not the value of the field
                    i = 1 \/ key # ScopeOf(context, open[i - 1].ref).field.name )
        => (phase' = "failed" /\ returned' = Undefined)
     /\ \A i \in 1..Len(closedLog') :
          Unset(context, ScopeRef(closedLog'[i].scope), closedLog'[i].result) = {}
     /\ \A key \in {"host", "limit"} :
          ( /\ lastOp'.op = "end"
            /\ error' = RequiredMessage(key) )
          => key \in Unset(context, runtime.currentScope, runtime.currentResult)
    ]_vars

\* an end closed a section whose required field limit was never set
C1_Witness ==
  /\ phase = "failed"
  /\ lastOp.op = "end"
  /\ error = RequiredMessage("limit")
  /\ returned = Undefined

\* the in-progress result of the open scope whose history is assigned[j]
ResultAt(rt, hist, j) ==
  IF j = Len(hist) THEN rt.currentResult ELSE rt.resultStack[j + 1]

ScopeAt(rt, hist, j) ==
  IF j = Len(hist) THEN rt.currentScope ELSE rt.scopeStack[j + 1]

\* whether the open section whose history is assigned[j] is a field of one
\* value that the enclosing scope has been assigned already
SecondOpening(j) ==
  LET field == ScopeOf(context, ScopeAt(runtime, assigned, j)).field
  IN /\ ~field.list
     /\ ~field.overridable
     /\ \E i \in 1..Len(assigned[j - 1]) : assigned[j - 1][i].name = field.name

\* whether the history hist of an open scope holds an assignment to name
WasAssigned(hist, name) == \E i \in 1..Len(hist) : hist[i].name = name

OneValueError == RuntimeError(<<"Expected one value only">>)

(***************************************************************************)
(* C2.  A field with list = false and overridable = false takes one value  *)
(* per open scope: a second assignment to it before the scope closes (a    *)
(* second set of a plain field, a second dispatch of a struct, or the      *)
(* close, explicit or forced, of a section opened a second time) raises    *)
(* the RuntimeError                                                        *)
(* "Expected one value only" and leaves the result of the scope, with the  *)
(* first value, as it was; the error is raised by a set only when the      *)
(* field had been assigned.  An assignment gives a value: a call with no   *)
(* argument, which the runtime executes as a set of undefined, is C12's.   *)
(***************************************************************************)
C2_ExpectedOneValueOnly ==
  [][/\ \A name \in {p.name : p \in context.props} :
          ( /\ lastOp'.op = "set"
            /\ lastOp'.name = name
            /\ lastOp'.value # Undefined
            /\ runtime.currentScope # Null
            /\ Has(ScopeOf(context, runtime.currentScope).fields, name) )
          => LET field == ScopeOf(context, runtime.currentScope).fields[name]
                 single == ~field.list /\ ~field.overridable
                 again == WasAssigned(assigned[Len(assigned)], name)
             IN /\ (single /\ again /\ field.type # "section")
                     => /\ phase' = "failed"
                        /\ error' = OneValueError
                        /\ runtime'.currentResult = runtime.currentResult
                        /\ HasField(runtime.currentResult.m, field.ns, name)
                /\ (error' = OneValueError) => (single /\ again)
     \* the close of the innermost open section
     /\ ( /\ lastOp'.op \in {"end", "finish"}
          /\ Len(assigned) > 1
          /\ Unset(context, runtime.currentScope, runtime.currentResult) = {}
          /\ SecondOpening(Len(assigned)) )
        => /\ phase' = "failed"
           /\ error' = OneValueError
           /\ runtime'.currentResult = Top(runtime.resultStack)
           /\ Has(runtime'.currentResult.m,
                  ScopeOf(context, runtime.currentScope).field.name)
     /\ (lastOp'.op = "end" /\ error' = OneValueError)
        => (Len(assigned) > 1 /\ SecondOpening(Len(assigned)))
     \* the forced close of every open section
     /\ (lastOp'.op = "finish" /\ \E j \in 2..Len(assigned) : SecondOpening(j))
        => (phase' = "failed" /\ returned' = Undefined)
     /\ (lastOp'.op = "finish" /\ error' = OneValueError)
        => \E j \in 2..Len(assigned) : SecondOpening(j)
    ]_vars

\* host was set twice: the second set failed and the first value is kept
C2_Witness ==
  /\ phase = "failed"
  /\ lastOp.op = "set"
  /\ lastOp.name = "host"
  /\ error = OneValueError
  /\ Has(runtime.currentResult.m, "host")

\* the results the history hist of a scope folded in under name, in order
RECURSIVE FoldsOf(_, _)
FoldsOf(hist, name) ==
  IF hist = <<>> THEN <<>>
  ELSE IF Head(hist).src = "fold" /\ Head(hist).name = name
  THEN <<Head(hist).v>> \o FoldsOf(Tail(hist), name)
  ELSE FoldsOf(Tail(hist), name)

\* the names of the list sections a scope declares
ListSections(ctx, ref) ==
  {name \in DOMAIN ScopeOf(ctx, ref).fields :
     /\ ScopeOf(ctx, ref).fields[name].type = "section"
     /\ ScopeOf(ctx, ref).fields[name].list}

(***************************************************************************)
(* C3.  A section declared list = true that the script opened and closed   *)
(* n times maps, in the result of the enclosing scope, to the sequence of  *)
(* exactly the n results assembled at those closes, in the order of the    *)
(* closes; this holds while the enclosing scope is open and in the result  *)
(* it closes with (n = 0 gives the empty sequence there).                  *)
(***************************************************************************)
C3_ListSectionInCloseOrder ==
  [][/\ phase' = "running" =>
          \A j \in 1..Len(assigned') :
            \A name \in ListSections(context, ScopeAt(runtime', assigned', j)) :
              LET folds == FoldsOf(assigned'[j], name)
                  res == ResultAt(runtime', assigned', j).m
              IN IF folds = <<>> THEN ~Has(res, name)
                 ELSE Has(res, name) /\ res[name] = Arr(folds)
     /\ (lastOp'.op = "end" /\ phase' = "running") =>
          \A name \in ListSections(context, runtime.currentScope) :
            closedLog'[1].result.m[name] =
              Arr(FoldsOf(assigned[Len(assigned)], name))
    ]_vars

\* location was opened and closed twice in server, with url 1 then 2
C3_Witness ==
  /\ phase = "running"
  /\ runtime.currentScope = ScopeRef(<<"server">>)
  /\ Has(runtime.currentResult.m, "location")
  /\ Len(runtime.currentResult.m["location"].l) = 2
  /\ runtime.currentResult.m["location"].l[1].m["url"] = Str(<<"1">>)
  /\ runtime.currentResult.m["location"].l[2].m["url"] = Str(<<"2">>)

\* the values the history hist of a scope holds for the fields that are
\* not idxignore, in order
RECURSIVE Indexed(_)
Indexed(hist) ==
  IF hist = <<>> THEN <<>>
  ELSE IF Head(hist).ign THEN Indexed(Tail(hist))
  ELSE <<Head(hist).v>> \o Indexed(Tail(hist))

\* the index key of the scope ref, "" when it declares none
IndexKey(ctx, ref) == ScopeOf(ctx, ref).field.index

(***************************************************************************)
(* C4.  When a section that declares an index key closes, the sequence     *)
(* under that key is exactly the coerced values assigned, while the        *)
(* section was the active scope, to its fields that are not idxignore      *)
(* (the results of child sections folded in counted as assignments), in    *)
(* the order of the assignments.                                           *)
(***************************************************************************)
C4_IndexIsAssignments ==
  [][( /\ lastOp'.op = "end"
       /\ phase' = "running"
       /\ IndexKey(context, runtime.currentScope) # "" )
     => closedLog'[1].result.m[IndexKey(context, runtime.currentScope)]
          = Arr(Indexed(assigned[Len(assigned)]))
    ]_vars

\* server closed after limit = 1 only: its index ends with "7", an
\* element of the default of deny, which is idxignore and was never set
C4_Witness ==
  /\ lastOp.op = "end"
  /\ phase = "running"
  /\ closedLog # <<>>
  /\ closedLog[1].scope = <<"server">>
  /\ closedLog[1].result.m["_index"] = Arr(<<Num(1), Str(<<"7">>)>>)

(***************************************************************************)
(* C5.  A successful set of a field with a namespace p1.p2...pk writes the *)
(* coerced value at result[p1][p2]...[pk][name], creating the mappings on  *)
(* the way where they are missing, and never as the flat key result[name]: *)
(* every other top-level key of the result is left as it was.              *)
(***************************************************************************)
C5_NamespaceNesting ==
  [][\A p \in context.props :
       ( /\ lastOp'.op = "set"
         /\ lastOp'.name = p.name
         /\ phase' = "running"
         /\ runtime.currentScope # Null
         /\ Has(ScopeOf(context, runtime.currentScope).fields, p.name)
         /\ ScopeOf(context, runtime.currentScope).fields[p.name].ns # <<>> )
       => LET field == ScopeOf(context, runtime.currentScope).fields[p.name]
              before == runtime.currentResult.m
              after == runtime'.currentResult.m
          IN /\ HasField(after, field.ns, p.name)
             /\ FieldAt(after, field.ns, p.name)
                  = validateValue(runtime.strict, field, lastOp'.value).v
             /\ ~Has(after, p.name)
             /\ DOMAIN after = DOMAIN before \cup {Head(field.ns)}
             /\ \A key \in DOMAIN before \ {Head(field.ns)} :
                  after[key] = before[key]
    ]_vars

\* port "2" was set at the root: the result holds net.http.port = 2
C5_Witness ==
  /\ phase = "running"
  /\ lastOp.op = "set"
  /\ lastOp.name = "port"
  /\ lastOp.value = Str(<<"2">>)
  /\ runtime.currentResult.m["net"].m["http"].m["port"] = Num(2)
  /\ ~Has(runtime.currentResult.m, "port")

\* the script continued with k explicit ends (it stops at the first that
\* throws)
RECURSIVE ExplicitEnds(_, _, _)
ExplicitEnds(X, ctx, k) ==
  IF k = 0 \/ Failed(X) THEN X
  ELSE ExplicitEnds(endGetter(X, ctx), ctx, k - 1)

\* what runInContext gives when the script continues with k explicit ends
\* and then stops: the error the run fails with, or the document returned
WithExplicitEnds(X, ctx, k) ==
  LET ended == ExplicitEnds(X, ctx, k)
      X1 == IF Failed(ended) THEN Throw(ended, runScriptCatch(ended.err))
            ELSE closeAll(ended, ctx)
  IN [failed |-> Failed(X1), error |-> X1.err,
      returned |-> IF Failed(X1) THEN Undefined ELSE X1.ret,
      closed |-> X1.closed]

\* the number of sections open: the scopes on the stack above the root
SectionsOpen(rt) == Len(rt.scopeStack) - 1

UnexpectedEnd ==
  RuntimeError(<<"bad syntax, unexpected ", BackTick, "end", BackTick>>)

C8_StructNeverActive ==
  [][/\ (phase' = "running" /\ runtime'.currentScope # Null)
        => ScopeOf(context, runtime'.currentScope).field.type # "struct"
     /\ ( /\ lastOp'.op = "set"
          /\ lastOp'.kind = "struct"
          /\ phase' = "running" )
        => LET ref == ScopeRef(runtime.currentScope.p \o <<lastOp'.name>>)
               field == ScopeOf(context, ref).field
               prop == ScopeOf(context, ref).fields[field.property]
               folded == runtime'.currentResult.m[lastOp'.name]
           IN /\ runtime'.scopeStack = runtime.scopeStack
              /\ runtime'.currentScope = runtime.currentScope
              /\ runtime'.resultStack = runtime.resultStack
              /\ runtime'.indexStack = runtime.indexStack
              /\ runtime'.currentIndex = runtime.currentIndex
              /\ DOMAIN runtime'.currentResult.m
                   = DOMAIN runtime.currentResult.m \cup {lastOp'.name}
              /\ \A key \in DOMAIN runtime.currentResult.m :
                   runtime'.currentResult.m[key] = runtime.currentResult.m[key]
              /\ closedLog' = <<[scope |-> ref.p, result |-> folded]>>
              /\ folded.m[field.property]
                   = validateValue(runtime.strict, prop, lastOp'.value).v
              /\ \A key \in DOMAIN ScopeOf(context, ref).statics :
                   folded.m[key] = ScopeOf(context, ref).statics[key]
    ]_vars

\* simple 1 at the root: the root is still the active scope and its
\* result holds simple = {name: "1", field: "test"}
C8_Witness ==
  /\ phase = "running"
  /\ lastOp.op = "set"
  /\ lastOp.kind = "struct"
  /\ runtime.currentScope = ScopeRef(RootPath)
  /\ Len(runtime.scopeStack) = 1
  /\ Has(runtime.currentResult.m, "simple")
  /\ runtime.currentResult.m["simple"].m["name"] = Str(<<"1">>)

\* the dispatch of the section or struct name of the active scope with
\* value v, done in two calls: the push of its scope, then the setter of
\* the child its property key names, called with v
PushThenSet(rt, ctx, hks, name, v) ==
  LET ref == ScopeRef(rt.currentScope.p \o <<name>>)
      field == ScopeOf(ctx, ref).field
      child == ScopeOf(ctx, ref).fields[field.property]
      pushed == [Exec(push(rt, ctx, ref)) EXCEPT !.hooks = hks]
  IN createProp(pushed, ctx, child.name, child.ns, v)

(***************************************************************************)
(* C9.  The dispatch, with value v, of a section or struct that declares a *)
(* property key pushes the scope of the section and sets the child the key *)
(* names to the coerced v, exactly as the setter of that child called with *)
(* v right after the push does: the result of the new scope holds the      *)
(* child alone, with the coerced value, and the index of the new scope,    *)
(* when it has one, holds that value; a struct is then closed with that    *)
(* result.                                                                 *)
(***************************************************************************)
C9_PropertyKeyAsChildSetter ==
  [][( /\ lastOp'.op = "set"
       /\ lastOp'.kind \in {"section", "struct"}
       /\ ScopeOf(context, runtime.currentScope).fields[lastOp'.name].property
            # "" )
     => LET name == lastOp'.name
            v == lastOp'.value
            ref == ScopeRef(runtime.currentScope.p \o <<name>>)
            field == ScopeOf(context, ref).field
            child == ScopeOf(context, ref).fields[field.property]
            coerced == validateValue(runtime.strict, child, v)
            two == PushThenSet(runtime, context, hooks, name, v)
            set == IF field.type = "struct" /\ ~Failed(two)
                   THEN pop(two, context) ELSE two
        IN /\ runtime' = set.rt
           /\ error' = runScriptCatch(set.err)
           /\ coerced.err = NoError
               => /\ two.rt.currentScope = ref
                  /\ two.rt.currentResult
                       = Obj(Put(EmptyMap, child.name, coerced.v))
                  /\ two.rt.currentIndex
                       = (IF field.index = "" THEN Null
                          ELSE IF child.idxignore THEN Arr(<<>>)
                          ELSE Arr(<<coerced.v>>))
                  /\ two.rt.scopeStack
                       = Append(runtime.scopeStack, runtime.currentScope)
    ]_vars

\* location 1 inside server: the scope of location is active, its result
\* is {url: "1"} and its index holds "1"
C9_Witness ==
  /\ phase = "running"
  /\ lastOp.op = "set"
  /\ lastOp.name = "location"
  /\ lastOp.value = Num(1)
  /\ runtime.currentScope = ScopeRef(<<"server", "location">>)
  /\ runtime.currentResult = Obj(Put(EmptyMap, "url", Str(<<"1">>)))
  /\ runtime.currentIndex = Arr(<<Str(<<"1">>)>>)

\* the names of the statics of the scope at path
StaticsOf(ctx, path) ==
  {ctx.scopes[path].staticKeys[i] :
     i \in 1..Len(ctx.scopes[path].staticKeys)}

\* the error of a dispatch of name in the scope whose field is field
CannotBeDefined(name, field) ==
  RuntimeError(<<"Property '", name, "' cannot be defined in section '",
                 field.name, "'">>)

(***************************************************************************)
(* C10 as stated.  Every scope that closes successfully closes with a      *)
(* result that maps each of its static names to the value the schema       *)
(* declares for it.                                                        *)
(***************************************************************************)
C10_StaticsAsDeclared ==
  [][\A i \in 1..Len(closedLog') :
       \A key \in StaticsOf(context, closedLog'[i].scope) :
         /\ Has(closedLog'[i].result.m, key)
         /\ closedLog'[i].result.m[key]
              = context.scopes[closedLog'[i].scope].statics[key]
    ]_vars

(***************************************************************************)
(* C10.  Every scope that closes successfully closes with a result that    *)
(* maps each of its static names to the value the schema declares for it,  *)
(* except a static whose name is the index key of the scope, which maps to *)
(* the index sequence instead; and the script cannot set a static: the     *)
(* dispatch of a name that is a static and not a field of the active scope *)
(* fails the run and leaves the runtime as it was.                         *)
(***************************************************************************)
C10_StaticsExceptIndexKey ==
  [][/\ \A i \in 1..Len(closedLog') :
          LET scope == context.scopes[closedLog'[i].scope]
              result == closedLog'[i].result.m
          IN \A key \in StaticsOf(context, closedLog'[i].scope) :
               /\ Has(result, key)
               /\ IF key = scope.field.index
                  THEN result[key].k = "array"
                  ELSE result[key] = scope.statics[key]
     /\ \A p \in context.props :
          ( /\ lastOp'.op = "set"
            /\ lastOp'.name = p.name
            /\ runtime.currentScope # Null
            /\ p.name \in StaticsOf(context, runtime.currentScope.p)
            /\ ~Has(ScopeOf(context, runtime.currentScope).fields, p.name) )
          => /\ phase' = "failed"
             /\ error' = CannotBeDefined(p.name,
                            ScopeOf(context, runtime.currentScope).field)
             /\ runtime' = runtime
    ]_vars

\* a location closed by end: zone is the declared "eu", and order, a
\* static that is also the index key, is the index and not the declared 0
C10_Witness ==
  /\ phase = "running"
  /\ lastOp.op = "end"
  /\ closedLog # <<>>
  /\ closedLog[1].scope = <<"server", "location">>
  /\ closedLog[1].result.m["zone"] = Str(<<"e", "u">>)
  /\ closedLog[1].result.m["order"].k = "array"

\* the non-list fields with a declared default that a result lacks
Defaulted(ctx, ref, result) ==
  LET scope == ScopeOf(ctx, ref) IN
  {key \in DOMAIN scope.fields :
     /\ ~scope.fields[key].list
     /\ Has(scope.defaults, key)
     /\ ~HasField(result.m, scope.fields[key].ns, key)}

\* the declared default of a field as endScope coerces it
CoercedDefault(strict, scope, key) ==
  validateValue(strict, scope.fields[key], scope.defaults[key]).v

(***************************************************************************)
(* C11.  When a scope closes, by an end or by the forced close at the end  *)
(* of the run, every non-list field of it that was not set and has a       *)
(* declared default holds that default, coerced as an assigned value is,   *)
(* in the closed result; a default of 0 counts as declared and is          *)
(* installed.                                                              *)
(***************************************************************************)
C11_DefaultsInstalled ==
  [][lastOp'.op \in {"end", "finish"} =>
       \A i \in 1..Len(closedLog') :
         LET open == OpenScopes(runtime)
             scope == ScopeOf(context, open[i].ref)
             closed == closedLog'[i]
         IN /\ closed.scope = open[i].ref.p
            /\ \A key \in Defaulted(context, open[i].ref, open[i].result) :
                 /\ HasField(closed.result.m, scope.fields[key].ns, key)
                 /\ FieldAt(closed.result.m, scope.fields[key].ns, key)
                      = CoercedDefault(runtime.strict, scope, key)
                 /\ (scope.defaults[key] = Num(0)
                       => FieldAt(closed.result.m, scope.fields[key].ns, key)
                            = Num(0))
    ]_vars

\* an end closed a location whose field allow was never set (no value of
\* the script coerces to 0): the result holds the default 0
C11_Witness ==
  /\ phase = "running"
  /\ lastOp.op = "end"
  /\ closedLog # <<>>
  /\ closedLog[1].scope = <<"server", "location">>
  /\ closedLog[1].result.m["allow"] = Num(0)

\* the value the in-progress result of the active scope holds for a property
InProgress(rt, p) ==
  IF rt.currentResult # Null /\ HasField(rt.currentResult.m, p.ns, p.name)
  THEN FieldAt(rt.currentResult.m, p.ns, p.name)
  ELSE Undefined

\* the step is a dispatch of property p without arguments
ZeroArgs(p) ==
  /\ lastOp'.op = "set"
  /\ lastOp'.name = p.name
  /\ lastOp'.value = Undefined

TokenOf(expr) ==
  CASE expr.form = "string" -> expr.tok
    [] expr.form = "array" /\ expr.l[1].form = "string" -> expr.l[1].tok
    [] expr.form = "object" /\ "type" \in DOMAIN expr.o
         /\ expr.o.type.form = "string" -> expr.o.type.tok
    [] OTHER -> ""

\* the expression createContext was given for f, and the field compiled
GivenExpr == lastOp.value.m[1].expr
CompiledField == context.scopes[RootPath].fields["f"]

(***************************************************************************)
(* C13 as stated.  A type token in all upper case makes the field          *)
(* required whether it is given as a bare string, as the first element of  *)
(* an array or as the type of a descriptor; a token in lower or mixed case *)
(* leaves the field optional unless the descriptor sets required.          *)
(***************************************************************************)
C13_UpperCaseRequired ==
  (phase = "compiled" /\ TokenOf(GivenExpr) # "") =>
    /\ indexOf(UPPER_CASE, TokenOf(GivenExpr)) # -1
         => CompiledField.required
    /\ indexOf(UPPER_CASE, TokenOf(GivenExpr)) = -1
         => CompiledField.required
              = ( /\ GivenExpr.form = "object"
                  /\ Opt(GivenExpr.o, "required", FALSE) )

\* the descriptor {type: "STRING"} compiled into an optional field
C13_Witness ==
  /\ phase = "compiled"
  /\ GivenExpr = MObject([type |-> MString("STRING")])
  /\ CompiledField.type = "string"
  /\ ~CompiledField.required

\* whether some scope of the schema declares name, as a field or a static
DefinedAnywhere(ctx, name) ==
  \E path \in DOMAIN ctx.scopes :
    Has(ctx.scopes[path].fields, name) \/ Has(ctx.scopes[path].statics, name)

\* whether define finds name taken: a property of the context object, a
\* field of the root, or a root static whose value is truthy
DefinedInRoot(ctx, name) ==
  LET root == ctx.scopes[RootPath] IN
  \/ name \in CONTEXT_KEYS
  \/ Has(root.fields, name)
  \/ (Has(root.statics, name) /\ Truthy(root.statics[name]))

(***************************************************************************)
(* C14 as stated.  define fails, leaving the schema unchanged, whenever    *)
(* the name is already defined anywhere in the schema, in the root or in   *)
(* a nested scope, as a field or as a static.                              *)
(***************************************************************************)
C14_DefineFailsIfDefinedAnywhere ==
  [][(lastOp'.op = "define" /\ DefinedAnywhere(context, lastOp'.name)) =>
       (phase' = "failed" /\ context' = context)
    ]_vars

(***************************************************************************)
(* C14.  define fails with a RuntimeError, leaving the schema and the      *)
(* runtime unchanged, when the name is a field of the root scope, a root   *)
(* static whose value is truthy, or a property of the context object; a    *)
(* name that only a nested scope declares, or a root static whose value is *)
(* falsy, is not found: define succeeds and the root scope declares it.    *)
(***************************************************************************)
C14_DefineFailsIfDefinedInRoot ==
  [][lastOp'.op = "define" =>
       /\ DefinedInRoot(context, lastOp'.name) =>
            /\ phase' = "failed"
            /\ error'.cls = "RuntimeError"
            /\ context' = context
            /\ runtime' = runtime
       /\ ~DefinedInRoot(context, lastOp'.name) =>
            /\ phase' = "running"
            /\ lastOp'.name \in RootNames(context')
    ]_vars

\* define("host", ...) failed: host is a field of the root
C14_Witness ==
  /\ lastOp.op = "define"
  /\ lastOp.name = "host"
  /\ phase = "failed"
  /\ error = RuntimeError(<<"Property '", "host", "' is already defined">>)

\* the last step of the script was a successful define of name
AfterDefine(name) ==
  /\ lastOp.op = "define"
  /\ lastOp.name = name
  /\ phase = "running"

\* the step is the dispatch of a value to name
SetOf(name) == lastOp'.op = "set" /\ lastOp'.name = name

(***************************************************************************)
(* C15 as stated.  After a successful define the very next dispatch of the *)
(* name, whatever scope is active, is routed to the new field and sets it. *)
(***************************************************************************)
C15_DispatchSetsNewFieldAnywhere ==
  [][\A p \in context.props :
       (AfterDefine(p.name) /\ SetOf(p.name)) =>
         /\ phase' = "running"
         /\ InProgress(runtime', p)
              = validateValue(runtime.strict,
                              context.scopes[RootPath].fields[p.name],
                              lastOp'.value).v
    ]_vars

(***************************************************************************)
(* C15.  A successful define of a field adds it to the root scope and      *)
(* makes the name callable at once.  The next dispatch of the name is      *)
(* resolved in the active scope as every dispatch is: with the root        *)
(* active it sets the new field; in a section that declares no field of    *)
(* that name, or with no scope left open, it fails (the property cannot be *)
(* defined in the section); in a section that declares one it goes to the  *)
(* field of the section and leaves the root result alone.                  *)
(***************************************************************************)
C15_DispatchAfterDefine ==
  [][/\ \A p \in context.props :
          (AfterDefine(p.name) /\ SetOf(p.name)) =>
            LET active == ScopeOf(context, runtime.currentScope)
                root == context.scopes[RootPath]
            IN /\ runtime.currentScope = ScopeRef(RootPath) =>
                    /\ phase' = "running"
                    /\ runtime'.currentScope = ScopeRef(RootPath)
                    /\ InProgress(runtime', p)
                         = validateValue(runtime.strict, root.fields[p.name],
                                         lastOp'.value).v
               /\ runtime.currentScope = Null => phase' = "failed"
               /\ ( /\ runtime.currentScope \notin {Null, ScopeRef(RootPath)}
                    /\ ~Has(active.fields, p.name) ) =>
                    /\ phase' = "failed"
                    /\ error' = runScriptCatch(
                                  CannotBeDefined(p.name, active.field))
                    /\ runtime' = runtime
               /\ ( /\ runtime.currentScope \notin {Null, ScopeRef(RootPath)}
                    /\ Has(active.fields, p.name) ) =>
                    /\ runtime'.resultStack = runtime.resultStack
                    /\ phase' = "running" =>
                         InProgress(runtime', p)
                           = validateValue(runtime.strict,
                                           active.fields[p.name],
                                           lastOp'.value).v
     /\ ( /\ lastOp'.op = "define"
          /\ phase' = "running"
          /\ lastOp'.value.m[1].expr.form = "string" ) =>
          /\ Has(context'.scopes[RootPath].fields, lastOp'.name)
          /\ [ns |-> <<>>, name |-> lastOp'.name] \in context'.props
    ]_vars

\* the script defined limit and then set it, the root being active: the
\* result of the root holds the value
C15_Witness ==
  /\ nops = 2
  /\ lastOp.op = "set"
  /\ lastOp.name = "limit"
  /\ phase = "running"
  /\ runtime.currentScope = ScopeRef(RootPath)
  /\ Has(context.scopes[RootPath].fields, "limit")
  /\ runtime.currentResult.m["limit"] = Num(1)

\* the step is a call of include; the path and the arguments given
IncludeStep == lastOp'.op = "include"
GivenPath == lastOp'.value.path
NotFoundError(path) ==
  RuntimeError(<<"Include not found '", path.text, "'">>)

\* the step is the end of the script of an included file
ReturnStep == lastOp'.op = "return"

(***************************************************************************)
(* C16 as stated.  When an include returns to the including script, the    *)
(* scopes the included script opened and left open have been closed: the   *)
(* scope stack is no deeper than it was when include was called.           *)
(***************************************************************************)
C16_IncludeClosesItsScopes ==
  [][(ReturnStep /\ Len(frames') < Len(frames)) =>
       Len(runtime'.scopeStack) <= Top(frames).depth
    ]_vars

(***************************************************************************)
(* C16.  The end of an included script closes nothing: the scope stack,    *)
(* the active scope, are left as the included script left them and no exit *)
(* hook runs, so the including script finds the scopes the included one    *)
(* left open still open; they are closed by a later end or, with every     *)
(* other open scope, by the forced close at the end of the run.            *)
(***************************************************************************)
C16_IncludeClosesNothing ==
  [][/\ ReturnStep =>
          /\ phase' = "running"
          /\ Len(runtime'.scopeStack) = Len(runtime.scopeStack)
          /\ runtime'.currentScope = runtime.currentScope
          /\ closedLog' = <<>>
          /\ hooks' = hooks
     /\ (lastOp'.op = "finish" /\ phase' = "done") =>
          /\ runtime'.scopeStack = <<>>
          /\ runtime'.currentScope = Null
          /\ Len(closedLog') = Len(runtime.scopeStack)
    ]_vars

\* an include has returned to the script of the run with more scopes open
\* than when it was called
C16_Witness ==
  /\ phase = "running"
  /\ lastOp.op = "return"
  /\ Len(frames) = 1
  /\ Len(runtime.scopeStack) > lastOp.value.n

(***************************************************************************)
(* C17.  An included script works on the scope stack of the including      *)
(* script: an end it executes closes the active section, the one the       *)
(* including script had open included, and folds it into its parent; when  *)
(* the include returns, the active scope, result and index and the stacks  *)
(* are those the included script left, and a value the including script    *)
(* then assigns lands in that scope.                                       *)
(***************************************************************************)
C17_IncludeSharesScopeStack ==
  [][/\ ( /\ lastOp'.op = "end"
          /\ Len(frames) > 1
          /\ phase' = "running"
          /\ runtime.currentScope \notin {Null, ScopeRef(RootPath)} ) =>
          LET field == ScopeOf(context, runtime.currentScope).field IN
          /\ closedLog' # <<>>
          /\ closedLog'[1].scope = runtime.currentScope.p
          /\ runtime'.scopeStack = Rest(runtime.scopeStack)
          /\ runtime'.currentScope = Top(runtime.scopeStack)
          /\ HasField(runtime'.currentResult.m, field.ns, field.name)
     /\ ReturnStep => runtime' = runtime
     /\ \A p \in context.props :
          ( /\ lastOp.op = "return"
            /\ SetOf(p.name)
            /\ phase' = "running"
            /\ KindOf(p.name) \in {"string", "number"} ) =>
            /\ runtime'.currentScope = runtime.currentScope
            /\ runtime'.scopeStack = runtime.scopeStack
            /\ InProgress(runtime', p)
                 = validateValue(runtime.strict,
                     ScopeOf(context, runtime.currentScope).fields[p.name],
                     lastOp'.value).v
    ]_vars

\* the script of an included file executed end while the section server of
\* the including script was the active scope: the section is closed
C17_Witness ==
  /\ phase = "running"
  /\ Len(frames) = 2
  /\ lastOp.op = "end"
  /\ Top(frames).depth = 2
  /\ Top(frames).self.currentScope = ScopeRef(<<"server">>)
  /\ closedLog # <<>>
  /\ closedLog[1].scope = <<"server">>
  /\ runtime.currentScope = ScopeRef(RootPath)
  /\ HasField(runtime.currentResult.m, <<>>, "server")

(***************************************************************************)
(* C18.  An include called by an isolated runtime with a path that starts  *)
(* with "/" or contains "../" fails as not found and runs no file; the     *)
(* runtime of an included script is isolated when the including runtime    *)
(* is, or when the include was called with the isolation flag, so          *)
(* isolation is never dropped down a chain of includes.                    *)
(***************************************************************************)
C18_IsolationRejectsAndIsInherited ==
  [][/\ ( /\ IncludeStep
          /\ Top(frames).isolated
          /\ (GivenPath.abs \/ hasParentRef(GivenPath)) ) =>
          /\ phase' = "failed"
          /\ error' = NotFoundError(GivenPath)
          /\ frames' = frames
          /\ runtime' = runtime
     /\ \A i \in 1..(Len(frames') - 1) :
          frames'[i].isolated => frames'[i + 1].isolated
     /\ ( /\ IncludeStep
          /\ Len(frames') > Len(frames)
          /\ lastOp'.value.a1 = Bool(TRUE) ) => Top(frames').isolated
     /\ (lastOp'.op \in {"set", "end", "return"} /\ Len(frames') = Len(frames))
          => \A i \in 1..Len(frames) :
               frames'[i].isolated = frames[i].isolated
    ]_vars

\* a script included with the isolation flag included a script in turn,
\* and that one was refused an absolute path
C18_Witness ==
  /\ phase = "failed"
  /\ lastOp.op = "include"
  /\ lastOp.value.path.abs
  /\ Len(frames) = 3
  /\ ~frames[1].isolated
  /\ frames[2].isolated
  /\ frames[3].isolated
  /\ error = NotFoundError(lastOp.value.path)

(***************************************************************************)
(* C19 as stated.  include fails with a RuntimeError, running no script    *)
(* and leaving the runtime unchanged, whenever the path resolves to no     *)
(* file: a plain path that names no file, or a wildcard that matches none. *)
(***************************************************************************)
C19_IncludeFailsIfNoFile ==
  [][( /\ IncludeStep
       /\ resolvePath(Top(frames), GivenPath) \in {Null, ManyFiles(<<>>)} ) =>
       /\ phase' = "failed"
       /\ error'.cls = "RuntimeError"
       /\ runtime' = runtime
       /\ frames' = frames
    ]_vars

(***************************************************************************)
(* C19.  include fails with the RuntimeError "Include not found", running  *)
(* no script and leaving the runtime unchanged, when resolvePath returns   *)
(* null: a plain path that names no file.  A wildcard whose directory      *)
(* exists and that matches no file resolves to an empty list: the include  *)
(* returns without error, having run no script and changed nothing.        *)
(***************************************************************************)
C19_IncludeFailsIfNotFound ==
  [][IncludeStep =>
       /\ resolvePath(Top(frames), GivenPath) = Null =>
            /\ phase' = "failed"
            /\ error' = NotFoundError(GivenPath)
            /\ runtime' = runtime
            /\ frames' = frames
            /\ hooks' = hooks
       /\ resolvePath(Top(frames), GivenPath) = ManyFiles(<<>>) =>
            /\ phase' = "running"
            /\ error' = NoError
            /\ runtime' = runtime
            /\ frames' = frames
            /\ hooks' = hooks
    ]_vars

\* the include of ./none.conf, which names no file, has failed
C19_Witness ==
  /\ phase = "failed"
  /\ lastOp.op = "include"
  /\ lastOp.value.path.text = "./none.conf"
  /\ ~Top(frames).isolated
  /\ error = RuntimeError(<<"Include not found '", "./none.conf", "'">>)

\* the error createSandbox throws for a reserved name of the environment
ReservedError(name) ==
  NativeError(<<"Environment property '", name, "' is reserved.">>)

(***************************************************************************)
(* C20 as stated.  A call of runInContext or of include whose environment  *)
(* holds the name end, include or define is rejected: the call fails, and  *)
(* nothing is dispatched and no scope is pushed.                           *)
(***************************************************************************)
C20_ReservedEnvCallRejected ==
  [][/\ ( /\ lastOp'.op = "runInContext"
          /\ DOMAIN lastOp'.value.m \cap RESERVED_NAMES # {} ) =>
          /\ phase' = "failed"
          /\ runtime' = runtime
     /\ ( /\ IncludeStep
          /\ envOf(lastOp'.value.a1) \cap RESERVED_NAMES # {} ) =>
          /\ phase' = "failed"
          /\ runtime' = runtime
          /\ frames' = frames
    ]_vars

(***************************************************************************)
(* C20.  An environment holding the name end, include or define is         *)
(* rejected when the sandbox of the script it is given to is made, before  *)
(* that script starts: runInContext throws before the root scope is        *)
(* pushed, include throws before the script of the first file runs, and no *)
(* runtime ever runs a script with such an environment, so nothing is      *)
(* dispatched and nothing is pushed.  An include that finds no file fails  *)
(* as not found, and one whose wildcard matches no file makes no sandbox   *)
(* and returns without error; neither runs a script.                       *)
(***************************************************************************)
C20_ReservedEnvRejected ==
  [][/\ ( /\ lastOp'.op = "runInContext"
          /\ DOMAIN lastOp'.value.m \cap RESERVED_NAMES # {} ) =>
          /\ phase' = "failed"
          /\ \E name \in DOMAIN lastOp'.value.m \cap RESERVED_NAMES :
               error' = ReservedError(name)
          /\ runtime' = runtime
          /\ runtime'.scopeStack = <<>>
          /\ runtime'.currentScope = Null
          /\ hooks' = hooks
     /\ ( /\ IncludeStep
          /\ envOf(lastOp'.value.a1) \cap RESERVED_NAMES # {} ) =>
          /\ frames' = frames
          /\ runtime' = runtime
          /\ hooks' = hooks
          /\ resolvePath(Top(frames), GivenPath)
               \notin {Null, ManyFiles(<<>>)} =>
               /\ phase' = "failed"
               /\ \E name \in envOf(lastOp'.value.a1) \cap RESERVED_NAMES :
                    error' = runScriptCatch(ReservedError(name))
          /\ resolvePath(Top(frames), GivenPath) = Null =>
               /\ phase' = "failed"
               /\ error' = NotFoundError(GivenPath)
          /\ resolvePath(Top(frames), GivenPath) = ManyFiles(<<>>) =>
               /\ phase' = "running"
               /\ error' = NoError
     /\ \A i \in 1..Len(frames') :
          phase' = "running" => frames'[i].env \cap RESERVED_NAMES = {}
     /\ phase = "failed" => UNCHANGED vars
    ]_vars

\* runInContext was given an environment with the name end: it has thrown
\* and no scope is pushed
C20_Witness ==
  /\ phase = "failed"
  /\ lastOp.op = "runInContext"
  /\ "end" \in DOMAIN lastOp.value.m
  /\ error = ReservedError("end")
  /\ runtime.scopeStack = <<>>
  /\ runtime.currentScope = Null
  /\ nops = 0

\* the field f of the schema {f: ...}, the flag that makes its coercion
\* strict, and the first assignment of a value to it
FieldF == context.scopes[RootPath].fields["f"]
StrictF == runtime.strict \/ FieldF.strict
FirstSetF ==
  /\ lastOp'.op = "set"
  /\ lastOp'.name = "f"
  /\ runtime.currentScope = ScopeRef(RootPath)
  /\ ~Has(runtime.currentResult.m, "f")
GivenF == lastOp'.value
StoredF == runtime'.currentResult.m["f"]
Accepted == phase' = "running" /\ Has(runtime'.currentResult.m, "f")
Rejected(msg) ==
  /\ phase' = "failed"
  /\ error' = RuntimeError(<<msg>>)
  /\ runtime'.currentResult = runtime.currentResult

AllDigits(s) == s # <<>> /\ \A i \in 1..Len(s) : IsDigit(s[i])

(***************************************************************************)
(* C23 as stated.  A numeric string given to a number field in non-strict  *)
(* mode is stored as its integer, a number is stored unchanged, a string   *)
(* that is not numeric is rejected in both modes, and a number field that  *)
(* accepted a value never holds not-a-number.                              *)
(***************************************************************************)
C23_NumberNeverNaN ==
  [][(FirstSetF /\ FieldF.type = "number") =>
       /\ typeof(GivenF) = "number" => (Accepted /\ StoredF = GivenF)
       /\ (~StrictF /\ GivenF = Str(<<"4", "2">>)) =>
            (Accepted /\ StoredF = Num(42))
       /\ GivenF = Str(<<"a", "b", "c">>) => phase' = "failed"
       /\ Accepted => StoredF # NaN
    ]_vars

(***************************************************************************)
(* C23.  A number field stores a number given unchanged, in both modes,    *)
(* not-a-number included; in non-strict mode it stores the integer a       *)
(* string of digits spells ("42" gives 42); a string that does not start   *)
(* with a digit ("abc") is rejected with "Expected a Number" in both       *)
(* modes, as is every string in strict mode.  The only way a number field  *)
(* holds not-a-number is that not-a-number was the value given.            *)
(***************************************************************************)
C23_NumberCoercion ==
  [][(FirstSetF /\ FieldF.type = "number") =>
       /\ typeof(GivenF) = "number" => (Accepted /\ StoredF = GivenF)
       /\ ( /\ ~StrictF
            /\ GivenF.k = "string"
            /\ AllDigits(GivenF.s) ) =>
            (Accepted /\ StoredF = Num(DigitsToInt(GivenF.s)))
       /\ ( /\ ~StrictF
            /\ GivenF = Str(<<"4", "2">>) ) => (Accepted /\ StoredF = Num(42))
       /\ ( /\ GivenF.k = "string"
            /\ (StrictF \/ GivenF.s = <<>> \/ ~IsDigit(GivenF.s[1])) ) =>
            Rejected("Expected a Number")
       /\ (Accepted /\ StoredF = NaN) => GivenF = NaN
    ]_vars

\* a non-strict script gave "42" to the number field, which holds 42
C23_Witness ==
  /\ phase = "running"
  /\ lastOp.op = "set"
  /\ lastOp.value = Str(<<"4", "2">>)
  /\ FieldF.type = "number"
  /\ ~StrictF
  /\ runtime.currentScope = ScopeRef(RootPath)
  /\ runtime.currentResult.m["f"] = Num(42)

\* the unit factors: of a bytesize, of a timeunit (in milliseconds)
ByteFactor ==
  [u \in {<<"b">>, <<"k", "b">>, <<"m", "b">>, <<"g", "b">>} |->
     CASE u = <<"b">> -> 1
       [] u = <<"k", "b">> -> 1024
       [] u = <<"m", "b">> -> 1048576
       [] u = <<"g", "b">> -> 1073741824]
TimeFactor ==
  [u \in {<<"m", "s">>, <<"s">>, <<"m">>, <<"h">>, <<"d">>} |->
     CASE u = <<"m", "s">> -> 1
       [] u = <<"s">> -> 1000
       [] u = <<"m">> -> 60000
       [] u = <<"h">> -> 3600000
       [] u = <<"d">> -> 86400000]
FactorOf(type) == IF type = "bytesize" THEN ByteFactor ELSE TimeFactor
InvalidExpression(type) ==
  RuntimeError(<<"Invalid ", type, " expression">>)

\* the integer prefix of a string and what follows it
IntPrefix(s) == DigitPrefix(s)
UnitOf(s) == SubSeq(s, Len(DigitPrefix(s)) + 1, Len(s))
\* an integer followed by a unit of the type
IsIntUnit(type, s) == IntPrefix(s) # <<>> /\ UnitOf(s) \in DOMAIN FactorOf(type)
\* digits and dots, followed by a unit of the type or by nothing
IsDotted(type, s) ==
  \E i \in 1..Len(s) :
    /\ \A j \in 1..i : IsDigit(s[j]) \/ s[j] = "."
    /\ SubSeq(s, i + 1, Len(s)) \in DOMAIN FactorOf(type) \cup {<<>>}

\* what the claim says of the integer forms
UnitProducts ==
  (FirstSetF /\ FieldF.type \in {"bytesize", "timeunit"}
             /\ GivenF.k = "string") =>
    /\ IsIntUnit(FieldF.type, GivenF.s) =>
         /\ Accepted
         /\ StoredF = Num(DigitsToInt(IntPrefix(GivenF.s))
                          * FactorOf(FieldF.type)[UnitOf(GivenF.s)])
    /\ AllDigits(GivenF.s) =>
         (Accepted /\ StoredF = Num(DigitsToInt(GivenF.s)))
    /\ (FieldF.type = "bytesize" /\ GivenF = Str(<<"2", "m", "b">>)) =>
         StoredF = Num(2097152)
    /\ (FieldF.type = "bytesize" /\ GivenF = Str(<<"1", "0", "2", "4">>)) =>
         StoredF = Num(1024)
    /\ (FieldF.type = "timeunit" /\ GivenF = Str(<<"1", "h">>)) =>
         StoredF = Num(3600000)
    /\ (FieldF.type = "timeunit" /\ GivenF = Str(<<"5", "0", "0">>)) =>
         StoredF = Num(500)

(***************************************************************************)
(* C24 as stated.  A string given to a bytesize or timeunit field is       *)
(* stored as its integer prefix times the factor of its unit, a string of  *)
(* digits as that integer, and a string of neither form fails with         *)
(* "Invalid bytesize expression" / "Invalid timeunit expression".          *)
(***************************************************************************)
C24_UnitsOrInvalid ==
  [][/\ UnitProducts
     /\ ( /\ FirstSetF
          /\ FieldF.type \in {"bytesize", "timeunit"}
          /\ GivenF.k = "string"
          /\ ~IsIntUnit(FieldF.type, GivenF.s)
          /\ ~AllDigits(GivenF.s) ) =>
          /\ phase' = "failed"
          /\ error' = InvalidExpression(FieldF.type)
    ]_vars

(***************************************************************************)
(* C24.  A string given to a bytesize or timeunit field is stored as its   *)
(* integer prefix times the factor of its unit (b 1, kb 1024, mb 1024^2,   *)
(* gb 1024^3; ms 1, s 1000, m 60000, h 3600000, d 86400000) and a string   *)
(* of digits as that integer.  The string fails with "Invalid bytesize     *)
(* expression" / "Invalid timeunit expression" exactly when it is not a    *)
(* run of digits and dots followed by a unit or by nothing: a run with     *)
(* dots is accepted and read as parseFloat and parseInt read it ("1.5kb"   *)
(* gives 1536, "." gives not-a-number).                                    *)
(***************************************************************************)
C24_UnitCoercion ==
  [][/\ UnitProducts
     /\ ( /\ FirstSetF
          /\ FieldF.type \in {"bytesize", "timeunit"}
          /\ GivenF.k = "string" ) =>
          /\ ~IsDotted(FieldF.type, GivenF.s) =>
               /\ phase' = "failed"
               /\ error' = InvalidExpression(FieldF.type)
               /\ runtime'.currentResult = runtime.currentResult
          /\ IsDotted(FieldF.type, GivenF.s) => Accepted
          /\ ( /\ FieldF.type = "bytesize"
               /\ GivenF = Str(<<"1", ".", "5", "k", "b">>) ) =>
               StoredF = Num(1536)
          /\ GivenF = Str(<<".">>) => StoredF = NaN
    ]_vars

\* the script gave "2mb" to the bytesize field, which holds 2097152
C24_Witness ==
  /\ phase = "running"
  /\ lastOp.op = "set"
  /\ lastOp.value = Str(<<"2", "m", "b">>)
  /\ FieldF.type = "bytesize"
  /\ runtime.currentScope = ScopeRef(RootPath)
  /\ runtime.currentResult.m["f"] = Num(2 * 1024 * 1024)

\* the kinds strictness is about, the test that tells a value of the kind
\* (a value is of the kind object when its typeof is "object", of the kind
\* number when its typeof is "number") and the message of the rejection
StrictKinds == {"boolean", "string", "number", "array", "object", "regexp"}
OfKind(type, v) ==
  CASE type = "boolean" -> v.k = "boolean"
    [] type = "string" -> v.k = "string"
    [] type = "number" -> v.k \in {"number", "nan", "float"}
    [] type = "array" -> v.k = "array"
    [] type = "object" -> v.k \in {"object", "array", "null", "regexp"}
    [] type = "regexp" -> v.k = "regexp"
ExpectedKind(type) ==
  CASE type = "boolean" -> "Expected a Boolean"
    [] type = "string" -> "Expected a String"
    [] type = "number" -> "Expected a Number"
    [] type = "array" -> "Expected an Array"
    [] type = "object" -> "Expected an Object"
    [] type = "regexp" -> "Expected a RegExp"

RECURSIVE Text(_)
Text(msg) == IF msg = <<>> THEN "" ELSE Head(msg) \o Text(Tail(msg))

(***************************************************************************)
(* C22.  When an end closes a scope that lacks a required field, the run   *)
(* fails with a RuntimeError whose message is, for a missing field N,      *)
(* "Required property 'N' was not set.", with one space between the quote  *)
(* that closes the name and the word was.                                  *)
(***************************************************************************)
C22_RequiredMessageText ==
  [][( /\ lastOp'.op = "end"
       /\ runtime.currentScope # Null
       /\ Unset(context, runtime.currentScope, runtime.currentResult) # {} )
     => /\ phase' = "failed"
        /\ error'.cls = "RuntimeError"
        /\ \E key \in Unset(context, runtime.currentScope,
                             runtime.currentResult) :
             Text(error'.msg)
               = "Required property '" \o key \o "' was not set."
    ]_vars

\* an end closed the section server without its required field limit: the
\* message of the error has no space before the word was
C22_Witness ==
  /\ phase = "failed"
  /\ lastOp.op = "end"
  /\ error.cls = "RuntimeError"
  /\ Text(error.msg) = "Required property 'limit'was not set."

(***************************************************************************)
(* C21.  Every failure of a run is a RuntimeError: an error of another     *)
(* class, whichever step raised it (a dispatch or an end of the script, or *)
(* the coercion of a default or a required check of the forced close that  *)
(* follows the script), is wrapped into a RuntimeError before it leaves    *)
(* runInContext.                                                           *)
(***************************************************************************)
C21_FailuresAreRuntimeErrors ==
  phase = "failed" => error.cls = "RuntimeError"

\* the script left the section box open; the forced close coerced the
\* default null of its string field, and the TypeError of that coercion is
\* the error of the run
C21_Witness ==
  /\ phase = "failed"
  /\ lastOp.op = "finish"
  /\ error = TypeError(<<"Cannot call method 'toString' of ", "null">>)
  /\ returned = Undefined

\* the list fields with a declared default that the result of a scope lacks
ListDefaulted(ctx, ref, result) ==
  LET scope == ScopeOf(ctx, ref) IN
  {key \in DOMAIN scope.fields :
     /\ scope.fields[key].list
     /\ Has(scope.defaults, key)
     /\ ~HasField(result.m, scope.fields[key].ns, key)}

\* the elements of the default of a list field, each coerced
CoercedElements(strict, scope, key) ==
  LET dflt == scope.defaults[key]
      elems == IF dflt.k = "array" THEN dflt.l ELSE <<dflt>>
  IN [i \in 1..Len(elems) |->
        validateValue(strict, scope.fields[key], elems[i]).v]

Range(seq) == {seq[i] : i \in 1..Len(seq)}

(***************************************************************************)
(* C26.  When a scope closes, every list field of it that was not set and  *)
(* has a default holds, in the closed result, the sequence of the elements *)
(* of the default, each coerced, whether the default is an array or a      *)
(* single value; and the index of the scope holds, besides the values      *)
(* assigned, the installed elements of the fields that are not idxignore,  *)
(* and none for a field that is.                                           *)
(***************************************************************************)
C26_ListDefaultsCoercedAndIndexed ==
  [][( /\ lastOp'.op = "end"
       /\ phase' = "running"
       /\ runtime.currentScope # Null )
     => LET scope == ScopeOf(context, runtime.currentScope)
            unset == ListDefaulted(context, runtime.currentScope,
                                   runtime.currentResult)
            closed == closedLog'[1].result.m
        IN /\ \A key \in unset :
                closed[key]
                  = Arr(CoercedElements(runtime.strict, scope, key))
           /\ scope.field.index # "" =>
                Range(closed[scope.field.index].l)
                  = Range(Indexed(assigned[Len(assigned)]))
                    \cup UNION {Range(CoercedElements(runtime.strict,
                                                      scope, key)) :
                                  key \in {k \in unset :
                                             ~scope.fields[k].idxignore}}
    ]_vars

\* an end closed pool after the script gave it the id 1 only: tags holds
\* the elements of its default as they are, not coerced, the index holds
\* them and the one of skip, which is idxignore, and not the 9 of ports
C26_Witness ==
  /\ phase = "running"
  /\ lastOp.op = "end"
  /\ closedLog # <<>>
  /\ closedLog[1].scope = <<"pool">>
  /\ closedLog[1].result.m["tags"] = Arr(<<Str(<<"7">>), Num(8)>>)
  /\ closedLog[1].result.m["skip"] = Arr(<<Str(<<"5">>)>>)
  /\ closedLog[1].result.m["ports"] = Arr(<<Num(9)>>)
  /\ closedLog[1].result.m["_index"]
       = Arr(<<Num(1), Str(<<"5">>), Str(<<"7">>), Num(8)>>)

\* the list fields without a default that the result of a scope lacks
UnsetLists(ctx, ref, result) ==
  LET scope == ScopeOf(ctx, ref) IN
  {key \in DOMAIN scope.fields :
     /\ scope.fields[key].list
     /\ ~Has(scope.defaults, key)
     /\ ~HasField(result.m, scope.fields[key].ns, key)}

(***************************************************************************)
(* C27 as stated.  When a scope closes, every list field of it that was    *)
(* never set and has no default, required or not, gets the empty sequence  *)
(* in the result, which lets the scope close.                              *)
(***************************************************************************)
C27_EmptyListForEveryUnsetList ==
  [][( /\ lastOp'.op = "end"
       /\ runtime.currentScope # Null )
     => \A key \in UnsetLists(context, runtime.currentScope,
                              runtime.currentResult) :
          /\ phase' = "running"
          /\ closedLog'[1].result.m[key] = Arr(<<>>)
    ]_vars

(***************************************************************************)
(* C27.  When a scope closes, every list field of it that was never set,   *)
(* has no default and is not required gets the empty sequence in the       *)
(* result.  A required list field that was never set gets nothing: the     *)
(* close fails with the required error of such a field.  So every list     *)
(* field of a scope that closed is in its result as a sequence.            *)
(***************************************************************************)
C27_EmptyListUnlessRequired ==
  [][( /\ lastOp'.op = "end"
       /\ runtime.currentScope # Null )
     => LET scope == ScopeOf(context, runtime.currentScope)
            unset == UnsetLists(context, runtime.currentScope,
                                runtime.currentResult)
        IN /\ phase' = "running" =>
                /\ \A key \in unset :
                     /\ ~scope.fields[key].required
                     /\ closedLog'[1].result.m[key] = Arr(<<>>)
                /\ \A key \in DOMAIN scope.fields :
                     scope.fields[key].list =>
                       /\ Has(closedLog'[1].result.m, key)
                       /\ closedLog'[1].result.m[key].k = "array"
           /\ (\E key \in unset : scope.fields[key].required) =>
                /\ phase' = "failed"
                /\ \E key \in unset :
                     /\ scope.fields[key].required
                     /\ error' = RequiredMessage(key)
    ]_vars

\* an end closed group after names was given a value and opts none: opts
\* is the empty sequence
C27_Witness ==
  /\ phase = "running"
  /\ lastOp.op = "end"
  /\ closedLog # <<>>
  /\ closedLog[1].scope = <<"group">>
  /\ closedLog[1].result.m["names"] = Arr(<<Str(<<"x">>)>>)
  /\ closedLog[1].result.m["opts"] = Arr(<<>>)

\* the step is an end executed while a section with an onexit hook is the
\* active scope
EndWithExitHook ==
  /\ lastOp'.op = "end"
  /\ runtime.currentScope # Null
  /\ ScopeOf(context, runtime.currentScope).field.onexit
ExitHook(path, result) ==
  [hook |-> "onexit", scope |-> path, result |-> result]

(***************************************************************************)
(* C28 as stated.  When an end closes a section with an onexit hook, the   *)
(* hook is called right before the fold into the parent, with the          *)
(* assembled result: the one that holds the defaults, the statics and the  *)
(* index.                                                                  *)
(***************************************************************************)
C28_ExitHookSeesAssembledResult ==
  [][(EndWithExitHook /\ phase' = "running") =>
       hooks' = Append(hooks, ExitHook(runtime.currentScope.p,
                                       closedLog'[1].result))
    ]_vars

(***************************************************************************)
(* C28.  When an end is executed in a section with an onexit hook, the     *)
(* hook is called first, with the in-progress result as the script left    *)
(* it: the defaults are installed, the requirements checked, the statics   *)
(* and the index put in the result, and the result folded into the parent, *)
(* after the hook has returned.  What the hook is passed holds no static   *)
(* and no index.                                                           *)
(***************************************************************************)
C28_ExitHookSeesResultInProgress ==
  [][EndWithExitHook =>
       LET scope == ScopeOf(context, runtime.currentScope) IN
       /\ hooks' = Append(hooks, ExitHook(runtime.currentScope.p,
                                          runtime.currentResult))
       /\ \A key \in DOMAIN scope.statics :
            ~Has(runtime.currentResult.m, key)
       /\ scope.field.index # "" =>
            ~Has(runtime.currentResult.m, scope.field.index)
       /\ phase' = "running" =>
            /\ \A key \in DOMAIN scope.statics :
                 Has(closedLog'[1].result.m, key)
            /\ scope.field.index # "" =>
                 Has(closedLog'[1].result.m, scope.field.index)
            /\ closedLog'[1].result # runtime.currentResult
    ]_vars

\* an end closed pool: the hook was passed the id alone, the result that
\* was folded holds the defaults, the static and the index as well
C28_Witness ==
  /\ phase = "running"
  /\ lastOp.op = "end"
  /\ closedLog # <<>>
  /\ closedLog[1].scope = <<"pool">>
  /\ hooks # <<>>
  /\ hooks[Len(hooks)] = ExitHook(<<"pool">>, Obj([id |-> Num(1)]))
  /\ DOMAIN closedLog[1].result.m
       = {"id", "tags", "skip", "ports", "kind", "_index"}

\* the calls of the onexit hook of the section at path among the hook
\* calls hks, and the closes of that section among those of log
ExitCalls(hks, path) ==
  Cardinality({i \in 1..Len(hks) :
                 hks[i].hook = "onexit" /\ hks[i].scope = path})
Closes(log, path) ==
  Cardinality({i \in 1..Len(log) : log[i].scope = path})

(***************************************************************************)
(* C29.  The onexit hook of a section is called once for every close of    *)
(* the scope of that section, whether an end of the script closes it or    *)
(* the forced close of the scopes left open at the end of the run: every   *)
(* step calls the hook as many times as it closes the section.             *)
(***************************************************************************)
C29_ExitHookOncePerClose ==
  [][\A path \in DOMAIN context.scopes :
       context.scopes[path].field.onexit =>
         ExitCalls(hooks', path) - ExitCalls(hooks, path)
           = Closes(closedLog', path)
    ]_vars

\* the run ended with pool left open: the forced close closed it and its
\* onexit hook was never called
C29_Witness ==
  /\ phase = "done"
  /\ lastOp.op = "finish"
  /\ Closes(closedLog, <<"pool">>) = 1
  /\ ExitCalls(hooks, <<"pool">>) = 0
  /\ Has(returned.m, "pool")

\* the step is the dispatch, in a scope that declares it, of a section or
\* struct field with an onenter hook; the field, its scope and the child
\* field its property key names
EnterStep ==
  /\ lastOp'.op = "set"
  /\ lastOp'.kind \in {"section", "struct"}
  /\ ScopeOf(context, runtime.currentScope).fields[lastOp'.name].onenter
Entered == ScopeOf(context, runtime.currentScope).fields[lastOp'.name]
EnteredPath == runtime.currentScope.p \o <<lastOp'.name>>
EnteredProperty == context.scopes[EnteredPath].fields[Entered.property]
EnterHook(path, result) ==
  [hook |-> "onenter", scope |-> path, result |-> result]

(***************************************************************************)
(* C30.  The dispatch of a section or struct field pushes the new scope,   *)
(* then applies the value to the child the property key names, then calls  *)
(* onenter with the in-progress result of the new scope, which holds the   *)
(* property and nothing else yet, then, for a struct, pops the scope: the  *)
(* statics of the struct are in the result folded and not in what the      *)
(* hook was passed, and a section is left active with the result the hook  *)
(* was passed.  When the value cannot be applied to the property the       *)
(* dispatch fails and onenter is not called.  A struct dispatched a second *)
(* time fails in the pop, after its hook was called.                       *)
(***************************************************************************)
C30_DispatchOrder ==
  [][EnterStep =>
       LET vv == validateValue(runtime.strict, EnteredProperty, lastOp'.value)
           inner == Obj((Entered.property :> vv.v))
       IN /\ vv.err # NoError =>
               /\ phase' = "failed"
               /\ hooks' = hooks
          /\ vv.err = NoError =>
               /\ hooks' = Append(hooks, EnterHook(EnteredPath, inner))
               /\ Entered.type = "section" =>
                    /\ phase' = "running"
                    /\ runtime'.currentScope = ScopeRef(EnteredPath)
                    /\ runtime'.currentResult = inner
                    /\ runtime'.scopeStack
                         = Append(runtime.scopeStack, runtime.currentScope)
                    /\ closedLog' = <<>>
               /\ (Entered.type = "struct" /\ phase' = "failed") =>
                    error' = OneValueError
               /\ Entered.type = "struct" =>
                    /\ runtime'.currentScope = runtime.currentScope
                    /\ runtime'.scopeStack = runtime.scopeStack
                    /\ Len(closedLog') = 1
                    /\ closedLog'[1].scope = EnteredPath
                    /\ closedLog'[1].result.m[Entered.property] = vv.v
                    /\ \A key \in DOMAIN context.scopes[EnteredPath].statics :
                         /\ Has(closedLog'[1].result.m, key)
                         /\ ~Has(inner.m, key)
    ]_vars

\* the script dispatched the struct pair with the value 1: onenter was
\* passed the result holding the key alone, and the struct is closed
C30_Witness ==
  /\ phase = "running"
  /\ lastOp.op = "set"
  /\ lastOp.name = "pair"
  /\ hooks # <<>>
  /\ hooks[Len(hooks)] = EnterHook(<<"pair">>, Obj([key |-> Num(1)]))
  /\ closedLog # <<>>
  /\ closedLog[1].result = Obj([key |-> Num(1), tag |-> Str(<<"t">>)])
  /\ runtime.currentScope = ScopeRef(RootPath)

\* the script executes an end while the root is the only open scope
SurplusEnd ==
  /\ lastOp'.op = "end"
  /\ runtime.currentScope = ScopeRef(RootPath)

\* a surplus end has closed the root and the script goes on
RootClosed == phase = "running" /\ runtime.currentScope = Null

\* the error of a dispatch of the property p while no scope is active
NoSection(p) ==
  RuntimeError(<<"Property '">> \o p.ns \o
               <<p.name, "' cannot be defined in section '", "<null>", "'">>)

NullOnExit == RuntimeError(<<"Cannot read property 'onexit' of null">>)

(***************************************************************************)
(* C31 as stated.  An end executed while only the root is open fails the   *)
(* run with the RuntimeError "bad syntax, unexpected end", whatever the    *)
(* script does afterwards, and no document is returned.                    *)
(***************************************************************************)
C31_SurplusEndIsBadSyntax ==
  [][/\ (SurplusEnd \/ RootClosed) => phase' # "done"
     /\ ((SurplusEnd \/ RootClosed) /\ phase' = "failed")
        => error' = UnexpectedEnd
    ]_vars

(***************************************************************************)
(* What the code does instead.  An end executed while only the root is     *)
(* open runs the close of the root: it fails the run with the RuntimeError *)
(* of that close (a required field that was not set), or it closes the     *)
(* root, returns nothing and leaves no active scope.  From then on every   *)
(* step fails the run with a RuntimeError and no document is returned: the *)
(* end of the script fails with "bad syntax, unexpected end", another end  *)
(* with the message of the read of onexit on null, and a dispatch with     *)
(* "cannot be defined in section <null>".                                  *)
(***************************************************************************)
C31_SurplusEndFailsTheRun ==
  [][/\ SurplusEnd =>
          \/ /\ phase' = "failed"
             /\ error'.cls = "RuntimeError"
             /\ error' # UnexpectedEnd
             /\ Unset(context, runtime.currentScope, runtime.currentResult)
                  # {}
          \/ /\ phase' = "running"
             /\ runtime'.currentScope = Null
             /\ runtime'.scopeStack = <<>>
             /\ returned' = Undefined
             /\ Unset(context, runtime.currentScope, runtime.currentResult)
                  = {}
     /\ RootClosed =>
          /\ phase' = "failed"
          /\ error'.cls = "RuntimeError"
          /\ returned' = Undefined
          /\ lastOp'.op = "finish" => error' = UnexpectedEnd
          /\ lastOp'.op = "end" => error' = NullOnExit
          /\ lastOp'.op = "set" =>
               \E p \in context.props :
                 /\ p.name = lastOp'.name
                 /\ error' = NoSection(p)
    ]_vars

\* host "x"; end; end: the second surplus end failed the run, and not with
\* the message of the scope syntax
C31_Witness ==
  /\ phase = "failed"
  /\ lastOp.op = "end"
  /\ lastOp.prev = ""
  /\ runtime.currentScope = Null
  /\ error = NullOnExit
  /\ returned = Undefined

\* the sections the script has open, the root included: one history of
\* assignments is kept for each
NestingDepth == Len(assigned)

\* the depth of the scope stack; the entry at its bottom is the null
\* active scope of the runtime before the root was pushed
StackDepth(rt) == Len(rt.scopeStack)

\* the stacks move together, and the scopes on them are nested one in the
\* other from the root down to the active scope
StackNested(rt) ==
  /\ Len(rt.resultStack) = StackDepth(rt)
  /\ Len(rt.indexStack) = StackDepth(rt)
  /\ rt.scopeStack[1] = Null
  /\ Len(rt.currentScope.p) = StackDepth(rt) - 1
  /\ \A i \in 2..StackDepth(rt) :
       rt.scopeStack[i]
         = ScopeRef(SubSeq(rt.currentScope.p, 1, i - 2))

(***************************************************************************)
(* C32.  While the script runs there is an active scope and the depth of   *)
(* the scope stack is the nesting depth of the sections the script has     *)
(* open, the root included; the stack is empty only when the run is over.  *)
(***************************************************************************)
C32_StackEmptyOnlyAtTheEnd ==
  /\ phase = "running" =>
       /\ runtime.currentScope # Null
       /\ StackDepth(runtime) = NestingDepth
       /\ StackNested(runtime)
  /\ phase = "done" =>
       /\ runtime.currentScope = Null
       /\ StackDepth(runtime) = 0

\* what holds instead: the depths agree while a scope is active, and the
\* only running states without one are those an end at the root left
C32_DepthWhileAScopeIsActive ==
  /\ (phase = "running" /\ runtime.currentScope # Null) =>
       /\ StackDepth(runtime) = NestingDepth
       /\ StackDepth(runtime) >= 1
       /\ StackNested(runtime)
  /\ (phase = "running" /\ runtime.currentScope = Null) =>
       /\ StackDepth(runtime) = 0
       /\ NestingDepth = 0
       /\ lastOp.op = "end"
  /\ phase = "done" =>
       /\ runtime.currentScope = Null
       /\ StackDepth(runtime) = 0

\* host "x"; end: the script has executed two statements and may execute
\* more, and no scope is active
C32_Witness ==
  /\ phase = "running"
  /\ nops = 2
  /\ lastOp.op = "end"
  /\ lastOp.prev = "string"
  /\ runtime.currentScope = Null
  /\ runtime.scopeStack = <<>>
  /\ error = NoError

\* the step is an end, and the section it closes is a field of one value
\* that was folded into the enclosing scope once already
SecondClose ==
  /\ lastOp'.op = "end"
  /\ Len(assigned) > 1
  /\ SecondOpening(Len(assigned))
ClosingField == ScopeOf(context, runtime.currentScope).field
FirstFold == FoldsOf(assigned[Len(assigned) - 1], ClosingField.name)[1]

(***************************************************************************)
(* C33.  The close of a section folds its result into the enclosing scope  *)
(* as a set of the section field would.  For a section field that is not a *)
(* list and not overridable, opening the section a second time in the same *)
(* enclosing scope succeeds; its second close, once the section itself has *)
(* closed (its defaults, requirements, statics and index are done), fails  *)
(* with "Expected one value only", and the result of the enclosing scope   *)
(* is left as it was, with the result of the first close under the name    *)
(* of the section.  The section pool always gets as far as the fold.       *)
(***************************************************************************)
C33_SecondCloseOfSingleSection ==
  [][/\ (SecondClose /\ closedLog' # <<>>) =>
          /\ phase' = "failed"
          /\ error' = OneValueError
          /\ runtime'.currentResult = Top(runtime.resultStack)
          /\ runtime'.currentScope = Top(runtime.scopeStack)
          /\ runtime'.currentResult.m[ClosingField.name] = FirstFold
          /\ closedLog'[1].scope = runtime.currentScope.p
     /\ (SecondClose /\ ClosingField.name = "pool") => closedLog' # <<>>
     /\ (SecondClose /\ closedLog' = <<>>) =>
          /\ phase' = "failed"
          /\ error' # OneValueError
     \* the second opening itself
     /\ ( /\ lastOp'.op = "set"
          /\ lastOp'.kind = "section"
          /\ phase' = "running"
          /\ WasAssigned(assigned[Len(assigned)], lastOp'.name) )
        => /\ runtime'.currentScope
               = ScopeRef(runtime.currentScope.p \o <<lastOp'.name>>)
           /\ Top(runtime'.resultStack) = runtime.currentResult
    ]_vars

\* pool 1; end; pool 1; end: the second end failed, and the root holds the
\* result of the first pool
C33_Witness ==
  /\ phase = "failed"
  /\ lastOp.op = "end"
  /\ nops = 4
  /\ error = OneValueError
  /\ closedLog # <<>>
  /\ closedLog[1].scope = <<"pool">>
  /\ runtime.currentScope = ScopeRef(RootPath)
  /\ Has(runtime.currentResult.m, "pool")
  /\ runtime.currentResult.m["pool"].m["id"] = Num(1)

\* the step is an end executed while a scope is active
EndStep == lastOp'.op = "end" /\ runtime.currentScope # Null
Closing == ScopeOf(context, runtime.currentScope)

\* the required fields of a scope that have a default
RequiredWithDefault(scope) ==
  {key \in DOMAIN scope.fields :
     scope.fields[key].required /\ Has(scope.defaults, key)}

(***************************************************************************)
(* C34.  The close of a scope installs the defaults, then checks the       *)
(* required fields, then puts in the statics, then the index, then folds   *)
(* the result into the enclosing scope.  A required field that has a       *)
(* default never raises the required error: the close installs its         *)
(* default.  When a required field is missing the close fails, and the     *)
(* result and the index of the enclosing scope are left as they were:      *)
(* nothing was folded.  The result that is folded holds the defaults, the  *)
(* statics and the index, and it is what the enclosing scope gets.         *)
(***************************************************************************)
C34_CloseOrder ==
  [][EndStep =>
       LET missing == Unset(context, runtime.currentScope,
                            runtime.currentResult)
       IN /\ \A key \in RequiredWithDefault(Closing) :
               /\ error' # RequiredMessage(key)
               /\ closedLog' # <<>> => Has(closedLog'[1].result.m, key)
          /\ missing # {} =>
               /\ phase' = "failed"
               /\ \E key \in missing : error' = RequiredMessage(key)
               /\ closedLog' = <<>>
               /\ runtime'.currentResult = Top(runtime.resultStack)
               /\ runtime'.currentIndex = Top(runtime.indexStack)
               /\ runtime'.currentScope = Top(runtime.scopeStack)
          /\ (\E key \in DOMAIN Closing.fields :
                error' = RequiredMessage(key)) => missing # {}
          /\ (phase' = "running" /\ Closing.parent # Null) =>
               LET folded == closedLog'[1].result
                   name == Closing.field.name
               IN /\ missing = {}
                  /\ \A key \in DOMAIN Closing.statics :
                       folded.m[key] = Closing.statics[key]
                  /\ Closing.field.index # "" =>
                       Has(folded.m, Closing.field.index)
                  /\ runtime'.currentResult.m[name] = folded
                  /\ Top(runtime.indexStack) # Null =>
                       runtime'.currentIndex
                         = Arr(Append(Top(runtime.indexStack).l, folded))
    ]_vars

\* pool 1; slot; end: the close of slot failed on size, though level, which
\* has a default, was not set either, and pool is as it was
C34_Witness ==
  /\ phase = "failed"
  /\ lastOp.op = "end"
  /\ error = RequiredMessage("size")
  /\ closedLog = <<>>
  /\ runtime.currentScope = ScopeRef(<<"pool">>)
  /\ runtime.currentResult = Obj([id |-> Num(1)])
  /\ runtime.currentIndex = Arr(<<Num(1)>>)

\* pool 1; slot; size 1; end: slot closed with the default of level and
\* its static, and was appended to the index of pool
C34_Folded ==
  /\ phase = "running"
  /\ lastOp.op = "end"
  /\ runtime.currentScope = ScopeRef(<<"pool">>)
  /\ runtime.currentResult.m["slot"]
       = Obj([size |-> Num(1), level |-> Num(3), unit |-> Str(<<"u">>)])
  /\ runtime.currentIndex
       = Arr(<<Num(1), runtime.currentResult.m["slot"]>>)

\* the names a schema declares as a plain field in some scope, and as a
\* section or a struct in some scope
DeclaredAs(ctx, kinds) ==
  {p.name : p \in {q \in ctx.props :
     \E path \in DOMAIN ctx.scopes :
       /\ Has(ctx.scopes[path].fields, q.name)
       /\ (ctx.scopes[path].fields[q.name].type \in {"section", "struct"})
            = kinds}}
Colliding(ctx) == DeclaredAs(ctx, TRUE) \cap DeclaredAs(ctx, FALSE)

GivenMarkup == lastOp.value.m
\* the type the one entry of a markup gives
TypeOfFirst(markup) == getPropertyField(markup[1].name, markup[1].expr)
                         .field.type
RepeatingMarkups == {FieldThenSection, SectionThenField, FieldThenStruct}

(***************************************************************************)
(* C35 as stated.  No schema that createContext or define accepted has a   *)
(* name that is a plain field in one scope and a section or a struct in    *)
(* another.                                                                *)
(***************************************************************************)
C35_CollisionRejected ==
  phase # "failed" => Colliding(context) = {}

(***************************************************************************)
(* C35.  A name is looked for in the scope being compiled only: a schema   *)
(* in which item is a plain field in one scope and a section or a struct   *)
(* in another compiles, with one entry for item in the dispatch table, and *)
(* a dispatch of item acts as the active scope declares it, setting the    *)
(* field or opening the section.  A define fails when the root scope       *)
(* declares the name, and succeeds, whatever the nested scopes declare     *)
(* under that name, when it does not: the root then declares it with the   *)
(* type given.                                                             *)
(***************************************************************************)
C35_NamesRepeatAcrossScopes ==
  [][/\ (lastOp.op = "createContext" /\ GivenMarkup \in RepeatingMarkups)
        => /\ context.err = NoError
           /\ phase = "running"
           /\ Colliding(context) = {"item"}
           /\ Cardinality({p \in context.props : p.name = "item"}) = 1
     /\ ( /\ lastOp'.op = "set"
          /\ lastOp'.name \in Colliding(context)
          /\ runtime.currentScope # Null
          /\ Has(ScopeOf(context, runtime.currentScope).fields, lastOp'.name)
          /\ phase' = "running" )
        => LET field == ScopeOf(context, runtime.currentScope)
                          .fields[lastOp'.name]
           IN CASE field.type = "section" ->
                     /\ runtime'.currentScope
                          = ScopeRef(runtime.currentScope.p \o <<field.name>>)
                     /\ Top(runtime'.resultStack) = runtime.currentResult
                [] field.type = "struct" ->
                     /\ runtime'.currentScope = runtime.currentScope
                     /\ runtime'.currentResult.m[field.name].k = "object"
                [] OTHER ->
                     /\ runtime'.currentScope = runtime.currentScope
                     /\ runtime'.currentResult.m[field.name]
                          = validateValue(runtime.strict, field,
                                          lastOp'.value).v
     /\ lastOp'.op = "define" =>
          LET name == lastOp'.name
              root == context.scopes[RootPath]
              inRoot == Has(root.fields, name) \/ Has(root.statics, name)
          IN /\ inRoot =>
                  /\ phase' = "failed"
                  /\ error' = RuntimeError(<<"Property '", name,
                                             "' is already defined">>)
                  /\ context' = context
             /\ ~inRoot =>
                  /\ phase' = "running"
                  /\ Has(context'.scopes[RootPath].fields, name)
                  /\ context'.scopes[RootPath].fields[name].type
                       = TypeOfFirst(lastOp'.value.m)
                  /\ \A path \in DOMAIN context.scopes \ {RootPath} :
                       context'.scopes[path] = context.scopes[path]
    ]_vars

\* the root declares the string item and the section box the section item:
\* the script has set the one, then opened box and the other
C35_Witness ==
  /\ phase = "running"
  /\ "item" \in Colliding(context)
  /\ context.scopes[RootPath].fields["item"].type = "string"
  /\ context.scopes[<<"box", "item">>].field.type = "section"
  /\ runtime.currentScope = ScopeRef(<<"box", "item">>)
  /\ Has(runtime.resultStack[2].m, "item")

\* the struct of a markup of StructMarkups: its property key, and the names
\* its markup gives to fields that are not statics, in order
GivenStruct == GivenMarkup[1].expr.o
IsStatic(entry) == getPropertyField(entry.name, entry.expr).field.type = "static"
Dynamic(param) ==
  SelectSeq(param, LAMBDA entry : ~IsStatic(entry))
Offending(property, param) ==
  SelectSeq(Dynamic(param), LAMBDA entry : entry.name # property)
DynamicProperties(name) ==
  NativeError(<<"Property '", name,
                "', struct's cannot contain dynamic properties.">>)

\* the struct scopes of a schema
Structs(ctx) ==
  {path \in DOMAIN ctx.scopes : ctx.scopes[path].field.type = "struct"}

(***************************************************************************)
(* C36.  The compilation of a struct fails at the first field of its       *)
(* markup that is not a static and whose name is not the property key of   *)
(* the struct, and succeeds when there is none.  In a schema that compiled *)
(* a struct scope declares no field but the one its property key names,    *)
(* so at most one, and whatever else it holds is a static.                 *)
(***************************************************************************)
C36_StructHasPropertyFieldOnly ==
  /\ (lastOp.op = "createContext" /\ GivenMarkup \in StructMarkups) =>
       LET offending == Offending(GivenStruct.property, GivenStruct.struct)
       IN /\ offending # <<>> =>
               /\ phase = "failed"
               /\ error = DynamicProperties(offending[1].name)
          /\ offending = <<>> =>
               /\ phase # "failed"
               /\ error = NoError
               /\ DOMAIN context.scopes[<<"pt">>].fields
                    = {entry.name : entry \in
                         {Dynamic(GivenStruct.struct)[i] :
                            i \in 1..Len(Dynamic(GivenStruct.struct))}}
  /\ phase # "failed" =>
       \A path \in Structs(context) :
         /\ DOMAIN context.scopes[path].fields
              \subseteq {context.scopes[path].field.property}
         /\ Cardinality(DOMAIN context.scopes[path].fields) <= 1

\* {pt: {property: "v", struct: {v: "number", y: "number"}}} did not
\* compile: y is not the property key
C36_Witness ==
  /\ lastOp.op = "createContext"
  /\ GivenMarkup = StructMarkup("v", ValueMarkup \o
                                     <<Entry("y", MString("number"))>>)
  /\ phase = "failed"
  /\ error = DynamicProperties("y")
  /\ Has(context.scopes[<<"pt">>].fields, "v")

\* {pt: {property: "v", struct: {v: "number", y: {type: "static", ...}}}}
\* compiled, and the script has dispatched pt
C36_Compiled ==
  /\ phase = "running"
  /\ Structs(context) = {<<"pt">>}
  /\ DOMAIN context.scopes[<<"pt">>].fields = {"v"}
  /\ DOMAIN context.scopes[<<"pt">>].statics = {"y"}
  /\ Has(runtime.currentResult.m, "pt")

\* the scopes of the schema other than the active one that declare name
DeclaredElsewhere(ctx, ref, name) ==
  {path \in DOMAIN ctx.scopes \ {ref.p} : Has(ctx.scopes[path].fields, name)}

\* the error of a dispatch of the property p in a scope that does not
\* declare it
NotInSection(p, scope) ==
  RuntimeError(<<"Property '">> \o p.ns \o
               <<p.name, "' cannot be defined in section '",
                 scope.field.name, "'">>)

\* the step is the dispatch of a name while a scope is active
DispatchStep == lastOp'.op = "set" /\ runtime.currentScope # Null
Active == ScopeOf(context, runtime.currentScope)

(***************************************************************************)
(* C37.  A dispatch is resolved against the active scope alone.  The       *)
(* dispatch of a name that the active scope does not declare as a field,   *)
(* whichever other scopes of the schema declare it (an enclosing scope, a  *)
(* nested one, one beside it), fails the run with "Property ... cannot be  *)
(* defined in section ..." and leaves the runtime as it was: the scope     *)
(* stack, the results and the indexes in progress; no hook is called and   *)
(* nothing is closed.  The error is raised in no other case.               *)
(***************************************************************************)
C37_DispatchInActiveScopeOnly ==
  [][DispatchStep =>
       \E p \in context.props :
         /\ p.name = lastOp'.name
         /\ ~Has(Active.fields, p.name) =>
              /\ DeclaredElsewhere(context, runtime.currentScope, p.name)
                   # {}
              /\ phase' = "failed"
              /\ error' = NotInSection(p, Active)
              /\ runtime' = runtime
              /\ hooks' = hooks
              /\ closedLog' = <<>>
              /\ assigned' = assigned
         /\ Has(Active.fields, p.name) => error' # NotInSection(p, Active)
    ]_vars

\* server; url 1: url is a field of location, a section of server, and
\* server, the active scope, does not declare it
C37_Witness ==
  /\ phase = "failed"
  /\ lastOp.op = "set"
  /\ lastOp.name = "url"
  /\ runtime.currentScope = ScopeRef(<<"server">>)
  /\ error = NotInSection([ns |-> <<>>, name |-> "url"],
                          ScopeOf(context, runtime.currentScope))

\* the same for a name of the enclosing scope, host, and for a name of the
\* struct beside server, name
C37_Enclosing ==
  /\ phase = "failed"
  /\ lastOp.name = "host"
  /\ runtime.currentScope = ScopeRef(<<"server">>)
  /\ runtime.currentResult # Obj(EmptyMap)
C37_Beside ==
  /\ phase = "failed"
  /\ lastOp.name = "name"
  /\ runtime.currentScope = ScopeRef(<<"server">>)

\* the step is an include(path, env) called with an environment and no
\* isolation flag from a runtime that is not isolated, and a script starts
IncludeWithEnvOnly ==
  /\ IncludeStep
  /\ ~Top(frames).isolated
  /\ lastOp'.value.a1.k = "object"
  /\ lastOp'.value.a2 = Undefined
  /\ Len(frames') > Len(frames)

(***************************************************************************)
(* C38.  Isolation is turned on by the isolation flag alone: the script    *)
(* that include(path, env) starts from a runtime that is not isolated,     *)
(* with an environment and no flag, is not isolated.                       *)
(***************************************************************************)
C38_EnvAloneDoesNotIsolate ==
  [][IncludeWithEnvOnly => ~Top(frames').isolated]_vars

\* include("./a.conf", {user: 1}) from a script that is not isolated; the
\* included script then called include("/etc/app/a.conf") and was refused
C38_Witness ==
  /\ phase = "failed"
  /\ lastOp.op = "include"
  /\ lastOp.value.path.abs
  /\ Len(frames) = 2
  /\ ~frames[1].isolated
  /\ frames[2].env = {"user"}
  /\ frames[2].isolated
  /\ error = NotFoundError(lastOp.value.path)

\* the fields of a scope that have a namespace
Namespaced(scope) ==
  {key \in DOMAIN scope.fields : scope.fields[key].ns # <<>>}

\* whether result holds a value for some field of the scope under the
\* namespace ns
NamespaceUsed(scope, result, ns) ==
  \E key \in Namespaced(scope) :
    /\ scope.fields[key].ns = ns
    /\ HasField(result.m, ns, key)

(***************************************************************************)
(* C39.  The result a scope closed with holds the mapping of a namespace   *)
(* only if a field of the scope under that namespace has a value in it:    *)
(* a namespaced field that was not set and has no default leaves nothing   *)
(* in the result, not even the empty mappings of its dotted path.          *)
(***************************************************************************)
C39_NoEmptyNamespace ==
  \A i \in 1..Len(closedLog) :
    LET scope == context.scopes[closedLog[i].scope]
        result == closedLog[i].result
    IN \A key \in Namespaced(scope) :
         Has(result.m, Head(scope.fields[key].ns))
           => NamespaceUsed(scope, result, scope.fields[key].ns)

\* host "x" and nothing else: the document returned holds net.http, empty,
\* for the field port that was never set
C39_Witness ==
  /\ phase = "done"
  /\ nops = 1
  /\ returned.m["host"] = Str(<<"x">>)
  /\ returned.m["net"] = Obj([http |-> Obj(EmptyMap)])
  /\ ~HasField(returned.m, <<"net", "http">>, "port")

====
